---- MODULE Spec2Model ----
(***************************************************************************)
(* The subsystems of the SIP stack.                                        *)
(*                                                                         *)
(* Client transaction (transaction/client_tx.go), specifications Spec and  *)
(* FairSpec: one transaction, its FSM (INVITE or non-INVITE), its three    *)
(* timers, the last response and last error, the original request and the  *)
(* message last given to the transport, and what it hands to its           *)
(* surroundings (responses passed up on msgs, errors on errs, requests and *)
(* ACKs given to the transport layer, delete requests).  Durations are in  *)
(* milliseconds.  In RaceSpec Receive is called by two tasks at once and   *)
(* takes its two steps, the store of the response and the spin of the FSM. *)
(*                                                                         *)
(* Connection pool (package transport), specifications PoolSpec and        *)
(* PoolFairSpec: the store of handlers by key, the calls Add, Get and      *)
(* Drop, pool.Serve, and each handler's serving loop with its timer.       *)
(* In PoolRaceSpec Add is called by several tasks at once and takes its    *)
(* two steps, the lookup and the store.  In PoolStopSpec and               *)
(* PoolStopFairSpec a Read can bring a message that the parse task holds   *)
(* for the handler.                                                        *)
(*                                                                         *)
(* Message parser (package syntax), specifications ParserSpec and          *)
(* ParserFairSpec: Write, the parse tasks reading the input buffer line by *)
(* line and parsing the headers, Reset, Stop, and what is sent on the      *)
(* output and error channels.  StartLineSpec applies the start-line step   *)
(* of parse to start lines, ParamsSpec applies parseParams to parameter    *)
(* sections, text being sequences of characters.                           *)
(*                                                                         *)
(* Each specification moves one subsystem and leaves the others as they    *)
(* are constructed.                                                        *)
(***************************************************************************)
EXTENDS Integers, Sequences, FiniteSets, TLC

\* ---- time constants (RFC 3261 defaults) ----
T1 == 500
T2 == 4000
Timer_A == T1
Timer_B == 64 * T1
Timer_D == 32000

\* ---- bounds of the model ----
\* number of Receive calls made on the transaction
MaxReceive == 3
\* number of retransmissions of the request
MaxResend == 4

\* status codes of the responses handed to Receive
StatusCodes == {180, 200, 486}

\* ---- FSM states ----
client_state_calling == "calling"
client_state_proceeding == "proceeding"
client_state_completed == "completed"
client_state_terminated == "terminated"

ClientStates ==
    {client_state_calling, client_state_proceeding,
     client_state_completed, client_state_terminated}

\* ---- FSM inputs ----
client_input_1xx == "1xx"
client_input_2xx == "2xx"
client_input_300_plus == "300_plus"
client_input_timer_a == "timer_a"
client_input_timer_b == "timer_b"
client_input_timer_d == "timer_d"
client_input_transport_err == "transport_err"
client_input_delete == "delete"

\* fsm.NO_INPUT and fsm.NO_ACTION of the FSM library
NO_INPUT == "NO_INPUT"
NO_ACTION == "NO_ACTION"

\* an input that has no entry in the Outcomes map of the current state
NoOutcome == [State |-> "none", Action |-> "none"]

VARIABLES
    isInvite,       \* tx.Origin().IsInvite()
    reliable,       \* tx.reliable
    state,          \* current state of tx.fsm
    lastResp,       \* tx.lastResp: status code of the last response, 0 = nil
    lastErr,        \* tx.lastErr: "nil" or "send"
    timer_a_time,   \* tx.timer_a_time
    timer_a,        \* tx.timer_a: "nil", "armed" or "fired"
    timer_b,        \* tx.timer_b
    timer_d_time,   \* tx.timer_d_time
    timer_d,        \* tx.timer_d
    out,            \* everything the transaction handed out, in order
    trace,          \* FSM transitions taken by the last Spin call
    nrecv,          \* number of Receive calls so far
    recvErr,        \* what the last Receive call returned
    cancelled,      \* the transaction's cancel channel is closed
    origin,         \* tx.origin: the request the transaction was created for
    sent,           \* the message last handed to tx.tpl.Send, NoMessage = none
    receiving       \* the Receive calls that have stored their response and
                    \* not yet spun the FSM: caller -> status code, 0 = none

txvars ==
    <<isInvite, reliable, state, lastResp, lastErr, timer_a_time, timer_a,
      timer_b, timer_d_time, timer_d, out, trace, nrecv, recvErr, cancelled,
      origin, sent, receiving>>

\* ---- connection pool (package transport) ----
\* The pool keeps one connection handler per key.  Time is a discrete clock
\* and a ttl is a number of its steps.  An instant (an expiry time, the
\* deadline of a timer) is kept as its distance from the present: 2 is two
\* steps ahead, 0 is the present instant, and every instant already passed is
\* kept as Passed, since the code only asks whether an instant is before now.

\* number of handlers the pool spawns in one behaviour
MaxHandlers == 2

ConnKeys == {"k1", "k2"}
Connections == {"c1", "c2"}
Ttls == {1, 2}
HandlerIds == 1..MaxHandlers
\* the tasks that call Add at the same time
Callers == {"g1", "g2"}

\* the nil connection / the empty slot of the store
NoConnection == "nil"
NoHandlerId == 0
\* an instant before now
Passed == -1
\* the deadline of a timer that is not running
NoDeadline == -2

VARIABLES
    poolCtxDone,    \* pool.ctx is cancelled
    store,          \* pool.store: key -> id of the handler stored, or NoHandlerId
    handlers,       \* the handlers ever created, by id (a record each)
    servePc,        \* where pool.Serve is
    errs,           \* the errors sent on pool.errs so far
    adding          \* the Add calls that have looked the key up, by caller

poolvars ==
    <<poolCtxDone, store, handlers, servePc, errs, adding>>

\* no Add call under way
NoCall ==
    [pc |-> "idle", key |-> "", connection |-> NoConnection, ttl |-> 0,
     found |-> NoHandlerId]

\* a slot of handlers that holds no handler yet
NoHandler ==
    [pc |-> "none", key |-> "", connection |-> NoConnection, expiryTime |-> 0,
     timer |-> NoDeadline, tick |-> FALSE, cancelled |-> FALSE, err |-> "nil",
     closed |-> 0, held |-> FALSE]

\* NewConnectionPool; Serve is about to start
NewConnectionPool ==
    /\ poolCtxDone = FALSE
    /\ store = [k \in ConnKeys |-> NoHandlerId]
    /\ handlers = [h \in HandlerIds |-> NoHandler]
    /\ servePc = "select"
    /\ errs = <<>>
    /\ adding = [c \in Callers |-> NoCall]

\* ---- message parser (package syntax) ----
\* A byte is a pair <<c, w>>: what it is, and the number of the Write call
\* that brought it.  "s" stands for the text of a well-formed start line, "x"
\* for any other text, "c" for the text of a Content-Length: 0 header, "a"
\* for the text of an address header (see HeaderText).

\* number of Write calls made on the parser
MaxWrites == 3
\* number of parse tasks started on the parser (NewParser and every Reset)
MaxTasks == 2

CR == "CR"
LF == "LF"
TaskIds == 1..MaxTasks

VARIABLES
    streamed,       \* p.streamed
    input,          \* p.input: the bytes written and not yet taken
    bodyLengths,    \* p.bodyLengths: the entries <<body length, length>> queued
    stopped,        \* p.stopped
    terminalErr,    \* p.terminalErr
    tasks,          \* the parse tasks, by id (a record each)
    published,      \* what was sent on p.output and p.errs, in order
    nwritten,       \* number of Write calls that returned success
    nreset,         \* number of Reset calls
    writeErr,       \* the error returned by the last Write call
    stopPc          \* where the Stop call is: "none", "waiting", "returned"

parservars ==
    <<streamed, input, bodyLengths, stopped, terminalErr, tasks, published, nwritten, nreset,
      writeErr, stopPc>>

\* a parse task: where it is, the Write its message began with, the length of
\* the start line it read, the number of Content-Length headers it parsed,
\* the kind of header line it holds in its buffer, the
\* size of the chunk it is about to take, the error it is about to publish
NoTask ==
    [pc |-> "none", w |-> 0, lineLen |-> 0, cl |-> 0, held |-> "", n |-> 0, err |-> "nil"]

\* a parse task that starts: parser.parse before its first NextLine
NewTask == [NoTask EXCEPT !.pc = "start"]

\* NewParser: the first parse task runs
NewParser(mode) ==
    /\ streamed = mode
    /\ input = <<>>
    /\ bodyLengths = <<>>
    /\ stopped = FALSE
    /\ terminalErr = "nil"
    /\ tasks = [t \in TaskIds |-> IF t = 1 THEN NewTask ELSE NoTask]
    /\ published = <<>>
    /\ nwritten = 0
    /\ nreset = 0
    /\ writeErr = "nil"
    /\ stopPc = "none"

\* ---- the parser's functions on text, called by themselves ----
VARIABLES
    call,           \* the function called and its arguments
    ret             \* what the call returned, NoValue = it has not returned

fnvars == <<call, ret>>

NoValue == [fn |-> "none"]

\* no function is being called
NoCallMade == call = NoValue /\ ret = NoValue

vars == <<txvars, poolvars, parservars, fnvars>>

\* ---- messages ----
\* A header is a record: its name, its value, and (CSeq only) the method.
Hdr(name, val) == [name |-> name, val |-> val, method |-> ""]

CSeqHdr(seq, method) == [name |-> "CSeq", val |-> seq, method |-> method]

\* core.NewRequest with the recipient and version of the original and an
\* empty body
NewRequest(method, hdrs) == [method |-> method, headers |-> hdrs, body |-> ""]

NoMessage == [method |-> "", headers |-> <<>>, body |-> ""]

\* the requests a transaction is created for: one with the mandatory headers
\* only, one with two Via headers, two Route headers and a Contact
Origins(inv) ==
    LET m == IF inv THEN "INVITE" ELSE "OPTIONS" IN
    { NewRequest(m, <<Hdr("Via", "v1"), Hdr("From", "f"), Hdr("To", "t"),
                      Hdr("Call-ID", "c"), CSeqHdr(1, m)>>),
      NewRequest(m, <<Hdr("Via", "v1"), Hdr("Via", "v2"), Hdr("Route", "r1"),
                      Hdr("Route", "r2"), Hdr("From", "f"), Hdr("To", "t"),
                      Hdr("Call-ID", "c"), CSeqHdr(2, m), Hdr("Contact", "x")>>) }

\* the headers of the response with status code res: its To header carries
\* the tag the remote side chose for it
ResponseHeaders(res) == <<Hdr("Via", "v1"), Hdr("To", res)>>

\* msg.GetHeaders(name)
GetHeaders(hdrs, name) == SelectSeq(hdrs, LAMBDA h : h.name = name)

\* core.CopyHeaders(name, from, to)
CopyHeaders(name, from, to) == to \o GetHeaders(from, name)

\* the goroutines that call clientTx.Receive at the same time
Receivers == {"r1", "r2"}

\* ---- entries of out ----
\* ch: "msgs" (v = status code passed up), "timeout", "transport" (errors on
\* errs), "request", "ack" (transport sends, v = 1 sent, 0 send failed),
\* "delete" (tx.delete()).
Out(ch, v) == [ch |-> ch, v |-> v]

\* the transaction as one value, for the operators below
Cur ==
    [isInvite |-> isInvite, reliable |-> reliable, state |-> state,
     lastResp |-> lastResp, lastErr |-> lastErr,
     timer_a_time |-> timer_a_time, timer_a |-> timer_a, timer_b |-> timer_b,
     timer_d_time |-> timer_d_time, timer_d |-> timer_d,
     out |-> out, trace |-> trace, origin |-> origin, sent |-> sent]

Apply(w) ==
    /\ state' = w.state
    /\ lastResp' = w.lastResp
    /\ lastErr' = w.lastErr
    /\ timer_a_time' = w.timer_a_time
    /\ timer_a' = w.timer_a
    /\ timer_b' = w.timer_b
    /\ timer_d_time' = w.timer_d_time
    /\ timer_d' = w.timer_d
    /\ out' = w.out
    /\ trace' = w.trace
    /\ origin' = w.origin
    /\ sent' = w.sent
    /\ UNCHANGED <<isInvite, reliable, cancelled>>
    /\ UNCHANGED <<poolvars, parservars, fnvars>>

Oc(s, a) == [State |-> s, Action |-> a]

\* ---- INVITE FSM: Outcomes of each state ----
InviteCalling(in) ==
    CASE in = client_input_1xx -> Oc(client_state_proceeding, "act_passup")
      [] in = client_input_2xx -> Oc(client_state_terminated, "act_passup_delete")
      [] in = client_input_300_plus -> Oc(client_state_completed, "act_invite_final")
      [] in = client_input_timer_a -> Oc(client_state_calling, "act_invite_resend")
      [] in = client_input_timer_b -> Oc(client_state_terminated, "act_timeout")
      [] in = client_input_transport_err -> Oc(client_state_terminated, "act_trans_err")
      [] OTHER -> NoOutcome

\* variant of InviteProceeding: timer A in proceeding retransmits the request
InviteProceeding_resend(in) ==
    CASE in = client_input_1xx -> Oc(client_state_proceeding, "act_passup")
      [] in = client_input_2xx -> Oc(client_state_terminated, "act_passup_delete")
      [] in = client_input_300_plus -> Oc(client_state_completed, "act_invite_final")
      [] in = client_input_timer_a -> Oc(client_state_proceeding, "act_invite_resend")
      [] in = client_input_timer_b -> Oc(client_state_proceeding, NO_ACTION)
      [] OTHER -> NoOutcome

\* variant of InviteProceeding: timer B times out in proceeding too
InviteProceeding_timeout(in) ==
    CASE in = client_input_1xx -> Oc(client_state_proceeding, "act_passup")
      [] in = client_input_2xx -> Oc(client_state_terminated, "act_passup_delete")
      [] in = client_input_300_plus -> Oc(client_state_completed, "act_invite_final")
      [] in = client_input_timer_a -> Oc(client_state_proceeding, NO_ACTION)
      [] in = client_input_timer_b -> Oc(client_state_terminated, "act_timeout")
      [] OTHER -> NoOutcome

InviteProceeding(in) ==
    CASE in = client_input_1xx -> Oc(client_state_proceeding, "act_passup")
      [] in = client_input_2xx -> Oc(client_state_terminated, "act_passup_delete")
      [] in = client_input_300_plus -> Oc(client_state_completed, "act_invite_final")
      [] in = client_input_timer_a -> Oc(client_state_proceeding, NO_ACTION)
      [] in = client_input_timer_b -> Oc(client_state_proceeding, NO_ACTION)
      [] OTHER -> NoOutcome

InviteCompleted(in) ==
    CASE in = client_input_1xx -> Oc(client_state_completed, NO_ACTION)
      [] in = client_input_2xx -> Oc(client_state_completed, NO_ACTION)
      [] in = client_input_300_plus -> Oc(client_state_completed, "act_ack")
      [] in = client_input_transport_err -> Oc(client_state_terminated, "act_trans_err")
      [] in = client_input_timer_a -> Oc(client_state_completed, NO_ACTION)
      [] in = client_input_timer_b -> Oc(client_state_completed, NO_ACTION)
      [] in = client_input_timer_d -> Oc(client_state_terminated, "act_delete")
      [] OTHER -> NoOutcome

\* variant of InviteTerminated: a late final response is acknowledged again
InviteTerminated_ack(in) ==
    CASE in = client_input_1xx -> Oc(client_state_terminated, NO_ACTION)
      [] in = client_input_2xx -> Oc(client_state_terminated, NO_ACTION)
      [] in = client_input_300_plus -> Oc(client_state_terminated, "act_ack")
      [] in = client_input_timer_a -> Oc(client_state_terminated, NO_ACTION)
      [] in = client_input_timer_b -> Oc(client_state_terminated, NO_ACTION)
      [] in = client_input_timer_d -> Oc(client_state_terminated, NO_ACTION)
      [] in = client_input_delete -> Oc(client_state_terminated, "act_delete")
      [] OTHER -> NoOutcome

InviteTerminated(in) ==
    CASE in = client_input_1xx -> Oc(client_state_terminated, NO_ACTION)
      [] in = client_input_2xx -> Oc(client_state_terminated, NO_ACTION)
      [] in = client_input_300_plus -> Oc(client_state_terminated, NO_ACTION)
      [] in = client_input_timer_a -> Oc(client_state_terminated, NO_ACTION)
      [] in = client_input_timer_b -> Oc(client_state_terminated, NO_ACTION)
      [] in = client_input_timer_d -> Oc(client_state_terminated, NO_ACTION)
      [] in = client_input_delete -> Oc(client_state_terminated, "act_delete")
      [] OTHER -> NoOutcome

InviteOutcomes(s, in) ==
    CASE s = client_state_calling -> InviteCalling(in)
      [] s = client_state_proceeding -> InviteProceeding(in)
      [] s = client_state_completed -> InviteCompleted(in)
      [] s = client_state_terminated -> InviteTerminated(in)

\* ---- non-INVITE FSM: Outcomes of each state ----
NonInviteCalling(in) ==
    CASE in = client_input_1xx -> Oc(client_state_proceeding, "act_passup")
      [] in = client_input_2xx -> Oc(client_state_completed, "act_non_invite_final")
      [] in = client_input_300_plus -> Oc(client_state_completed, "act_non_invite_final")
      [] in = client_input_timer_a -> Oc(client_state_calling, "act_non_invite_resend")
      [] in = client_input_timer_b -> Oc(client_state_terminated, "act_timeout")
      [] in = client_input_transport_err -> Oc(client_state_terminated, "act_trans_err")
      [] OTHER -> NoOutcome

\* variant of NonInviteProceeding: timer B is ignored, as in the INVITE FSM
NonInviteProceeding_ignoreB(in) ==
    CASE in = client_input_1xx -> Oc(client_state_proceeding, "act_passup")
      [] in = client_input_2xx -> Oc(client_state_completed, "act_non_invite_final")
      [] in = client_input_300_plus -> Oc(client_state_completed, "act_non_invite_final")
      [] in = client_input_timer_a -> Oc(client_state_proceeding, "act_non_invite_resend")
      [] in = client_input_timer_b -> Oc(client_state_proceeding, NO_ACTION)
      [] in = client_input_transport_err -> Oc(client_state_terminated, "act_trans_err")
      [] OTHER -> NoOutcome

NonInviteProceeding(in) ==
    CASE in = client_input_1xx -> Oc(client_state_proceeding, "act_passup")
      [] in = client_input_2xx -> Oc(client_state_completed, "act_non_invite_final")
      [] in = client_input_300_plus -> Oc(client_state_completed, "act_non_invite_final")
      [] in = client_input_timer_a -> Oc(client_state_proceeding, "act_non_invite_resend")
      [] in = client_input_timer_b -> Oc(client_state_terminated, "act_timeout")
      [] in = client_input_transport_err -> Oc(client_state_terminated, "act_trans_err")
      [] OTHER -> NoOutcome

NonInviteCompleted(in) ==
    CASE in = client_input_1xx -> Oc(client_state_completed, NO_ACTION)
      [] in = client_input_2xx -> Oc(client_state_completed, NO_ACTION)
      [] in = client_input_300_plus -> Oc(client_state_completed, NO_ACTION)
      [] in = client_input_timer_d -> Oc(client_state_terminated, "act_delete")
      [] in = client_input_timer_a -> Oc(client_state_completed, NO_ACTION)
      [] in = client_input_timer_b -> Oc(client_state_completed, NO_ACTION)
      [] OTHER -> NoOutcome

NonInviteTerminated(in) ==
    CASE in = client_input_1xx -> Oc(client_state_terminated, NO_ACTION)
      [] in = client_input_2xx -> Oc(client_state_terminated, NO_ACTION)
      [] in = client_input_300_plus -> Oc(client_state_terminated, NO_ACTION)
      [] in = client_input_timer_a -> Oc(client_state_terminated, NO_ACTION)
      [] in = client_input_timer_b -> Oc(client_state_terminated, NO_ACTION)
      [] in = client_input_timer_d -> Oc(client_state_terminated, NO_ACTION)
      [] in = client_input_delete -> Oc(client_state_terminated, "act_delete")
      [] OTHER -> NoOutcome

NonInviteOutcomes(s, in) ==
    CASE s = client_state_calling -> NonInviteCalling(in)
      [] s = client_state_proceeding -> NonInviteProceeding(in)
      [] s = client_state_completed -> NonInviteCompleted(in)
      [] s = client_state_terminated -> NonInviteTerminated(in)

\* initFSM: the FSM of the transaction, chosen by the request method
Outcomes(w, in) ==
    IF w.isInvite THEN InviteOutcomes(w.state, in)
    ELSE NonInviteOutcomes(w.state, in)

\* Spin(w, in, ok): the transaction after tx.fsm.Spin(in); ok tells whether the
\* transport send made during this call (there is at most one) succeeds.
RECURSIVE Spin(_, _, _)

\* commonTx.transportError, timeoutError, delete: the outcome handed to the
\* transaction's owner
transportError(w) == [w EXCEPT !.out = Append(@, Out("transport", 0))]

timeoutError(w) == [w EXCEPT !.out = Append(@, Out("timeout", 0))]

delete(w) == [w EXCEPT !.out = Append(@, Out("delete", 0))]

\* tpl.Send of a message: recorded with its result
Send(w, msg, ok) == [w EXCEPT !.out = Append(@, Out(msg, IF ok THEN 1 ELSE 0))]

\* variant of resend: the send error is stored and no input is injected
resend_noinject(w, ok) ==
    [Send(w, "request", ok) EXCEPT !.lastErr = IF ok THEN "nil" ELSE "send",
                                   !.sent = w.origin]

\* clientTx.resend
resend(w, ok) ==
    LET w1 == [Send(w, "request", ok) EXCEPT !.lastErr = IF ok THEN "nil" ELSE "send",
                                             !.sent = w.origin]
    IN  IF w1.lastErr # "nil" THEN Spin(w1, client_input_transport_err, ok) ELSE w1

\* variant of BuildAck: the CSeq of the original is not cloned, the method is
\* set on the original's header
BuildAck_shared(w) ==
    LET i == CHOOSE k \in 1..Len(w.origin.headers) : w.origin.headers[k].name = "CSeq"
        cseq == [w.origin.headers[i] EXCEPT !.method = "ACK"]
        h1 == CopyHeaders("From", w.origin.headers, <<>>)
        h2 == CopyHeaders("Call-ID", w.origin.headers, h1)
        h3 == CopyHeaders("Route", w.origin.headers, h2)
        h4 == Append(Append(h3, cseq), GetHeaders(w.origin.headers, "Via")[1])
    IN  [ack |-> NewRequest("ACK", CopyHeaders("To", ResponseHeaders(w.lastResp), h4)),
         origin |-> [w.origin EXCEPT !.headers[i] = cseq]]

\* the request clientTx.ack builds, and the original after building it
BuildAck(w) ==
    LET i == CHOOSE k \in 1..Len(w.origin.headers) : w.origin.headers[k].name = "CSeq"
        cseq == [w.origin.headers[i] EXCEPT !.method = "ACK"]
        h1 == CopyHeaders("From", w.origin.headers, <<>>)
        h2 == CopyHeaders("Call-ID", w.origin.headers, h1)
        h3 == CopyHeaders("Route", w.origin.headers, h2)
        h4 == Append(Append(h3, cseq), GetHeaders(w.origin.headers, "Via")[1])
    IN  [ack |-> NewRequest("ACK", CopyHeaders("To", ResponseHeaders(w.lastResp), h4)),
         origin |-> w.origin]

\* clientTx.ack: the receiver is a copy of the transaction, so the lastErr it
\* sets is the copy's; the FSM is shared through its pointer.
ack(w, ok) ==
    LET b == BuildAck(w)
        w1 == [Send(w, "ack", ok) EXCEPT !.sent = b.ack, !.origin = b.origin]
    IN  IF ~ok THEN Spin(w1, client_input_transport_err, ok) ELSE w1

\* clientTx.passUp
passUp(w) ==
    IF w.lastResp # 0 THEN [w EXCEPT !.out = Append(@, Out("msgs", w.lastResp))]
    ELSE w

\* an action's result: the transaction and the input the action returns
Ret(w, in) == [w |-> w, next |-> in]

act_invite_resend(w, ok) ==
    LET w1 == [w EXCEPT !.timer_a_time = @ * 2]
        w2 == [w1 EXCEPT !.timer_a = "armed"]
    IN  Ret(resend(w2, ok), NO_INPUT)

\* variant of act_non_invite_resend: timer A is not capped at T2
act_non_invite_resend_nocap(w, ok) ==
    LET w1 == [w EXCEPT !.timer_a_time = @ * 2]
        w3 == [w1 EXCEPT !.timer_a = "armed"]
    IN  Ret(resend(w3, ok), NO_INPUT)

act_non_invite_resend(w, ok) ==
    LET w1 == [w EXCEPT !.timer_a_time = @ * 2]
        w2 == IF w1.timer_a_time > T2 THEN [w1 EXCEPT !.timer_a_time = T2] ELSE w1
        w3 == [w2 EXCEPT !.timer_a = "armed"]
    IN  Ret(resend(w3, ok), NO_INPUT)

act_passup(w) == Ret(passUp(w), NO_INPUT)

\* variant of act_invite_final: no ACK is sent
act_invite_final_noack(w, ok) ==
    Ret([passUp(w) EXCEPT !.timer_d = "armed"], NO_INPUT)

act_invite_final(w, ok) ==
    LET w1 == ack(passUp(w), ok)
    IN  Ret([w1 EXCEPT !.timer_d = "armed"], NO_INPUT)

\* variant of act_non_invite_final: timer D is not armed
act_non_invite_final_noD(w) == Ret(passUp(w), NO_INPUT)

act_non_invite_final(w) ==
    Ret([passUp(w) EXCEPT !.timer_d = "armed"], NO_INPUT)

act_ack(w, ok) == Ret(ack(w, ok), NO_INPUT)

\* variant of act_trans_err: the transport error is surfaced but no delete
\* input follows
act_trans_err_nodelete(w) == Ret(transportError(w), NO_INPUT)

act_trans_err(w) == Ret(transportError(w), client_input_delete)

\* variant of act_timeout: the timeout is not handed to the owner
act_timeout_silent(w) == Ret(w, client_input_delete)

act_timeout(w) == Ret(timeoutError(w), client_input_delete)

act_passup_delete(w) == Ret(passUp(w), client_input_delete)

act_delete(w) == Ret(delete(w), NO_INPUT)

\* the call of an Outcome's Action
RunAction(a, w, ok) ==
    CASE a = "act_invite_resend" -> act_invite_resend(w, ok)
      [] a = "act_non_invite_resend" -> act_non_invite_resend(w, ok)
      [] a = "act_passup" -> act_passup(w)
      [] a = "act_invite_final" -> act_invite_final(w, ok)
      [] a = "act_non_invite_final" -> act_non_invite_final(w)
      [] a = "act_ack" -> act_ack(w, ok)
      [] a = "act_trans_err" -> act_trans_err(w)
      [] a = "act_timeout" -> act_timeout(w)
      [] a = "act_passup_delete" -> act_passup_delete(w)
      [] a = "act_delete" -> act_delete(w)
      [] OTHER -> Ret(w, NO_INPUT)

\* one transition, as recorded in trace
Tr(from, in, to, a) == [from |-> from, input |-> in, to |-> to, action |-> a]

\* the loop of FSM.Spin: for each input, look up the outcome of the current
\* state, move to its state, run its action and go on with the input the action
\* returns; an input without outcome ends the call with an error.
SpinLoop(w, in, ok) ==
    IF in = NO_INPUT THEN w
    ELSE LET o == Outcomes(w, in) IN
         IF o = NoOutcome
         THEN [w EXCEPT !.trace = Append(@, Tr(w.state, in, w.state, "error"))]
         ELSE LET w1 == [w EXCEPT !.state = o.State,
                                  !.trace = Append(@, Tr(w.state, in, o.State, o.Action))]
                  r == RunAction(o.Action, w1, ok)
              IN  Spin(r.w, r.next, ok)

\* FSM.Spin (the singleton sets make TLC evaluate the arguments once)
Spin(w, in, ok) ==
    CHOOSE r \in {SpinLoop(x, i, ok) : x \in {w}, i \in {in}} : TRUE

\* the error FSM.Spin returned: the call ended on an input without outcome
SpinErr(w) ==
    IF Len(w.trace) > 0 /\ w.trace[Len(w.trace)].action = "error" THEN "fsm" ELSE "nil"

\* ---- Receive ----
IsProvisional(res) == res >= 100 /\ res < 200

IsSuccess(res) == res >= 200 /\ res < 300

\* the input Receive spins for a response
ReceiveInput(res) ==
    IF IsProvisional(res) THEN client_input_1xx
    ELSE IF IsSuccess(res) THEN client_input_2xx
    ELSE client_input_300_plus

\* number of entries of a kind handed out so far
CountIn(seq, ch) == Cardinality({i \in 1..Len(seq) : seq[i].ch = ch})

Count(ch) == CountIn(out, ch)

\* variant of Init: timer A is started whatever the transport
Init_timerA ==
    /\ isInvite \in BOOLEAN
    /\ reliable \in BOOLEAN
    /\ state = client_state_calling
    /\ lastResp = 0
    /\ lastErr = "nil"
    /\ timer_a_time = Timer_A
    /\ timer_a = "armed"
    /\ timer_b = "armed"
    /\ timer_d_time = IF reliable THEN 0 ELSE Timer_D
    /\ timer_d = "nil"
    /\ out = <<>>
    /\ trace = <<>>
    /\ nrecv = 0
    /\ recvErr = "nil"
    /\ cancelled = FALSE
    /\ origin \in Origins(isInvite)
    /\ sent = NoMessage
    /\ receiving = [c \in Receivers |-> 0]
    /\ NewConnectionPool
    /\ NewParser(FALSE)
    /\ NoCallMade

\* ---- NewClientTx: the transaction as constructed ----
Init ==
    /\ isInvite \in BOOLEAN
    /\ reliable \in BOOLEAN
    /\ state = client_state_calling
    /\ lastResp = 0
    /\ lastErr = "nil"
    /\ timer_a_time = IF ~reliable THEN Timer_A ELSE 0
    /\ timer_a = IF ~reliable THEN "armed" ELSE "nil"
    /\ timer_b = "armed"
    /\ timer_d_time = IF reliable THEN 0 ELSE Timer_D
    /\ timer_d = "nil"
    /\ out = <<>>
    /\ trace = <<>>
    /\ nrecv = 0
    /\ recvErr = "nil"
    /\ cancelled = FALSE
    /\ origin \in Origins(isInvite)
    /\ sent = NoMessage
    /\ receiving = [c \in Receivers |-> 0]
    /\ NewConnectionPool
    /\ NewParser(FALSE)
    /\ NoCallMade

\* clientTx.Receive of a response with status code res
Receive(res) ==
    /\ nrecv < MaxReceive
    /\ nrecv' = nrecv + 1
    /\ \E ok \in BOOLEAN :
         (\E w \in {Spin([Cur EXCEPT !.lastResp = res, !.trace = <<>>], ReceiveInput(res), ok)} :
            /\ Apply(w)
            /\ recvErr' = SpinErr(w))
    /\ UNCHANGED receiving

\* variant of ReceiveRequest: the message is recorded as the last response
\* before its kind is looked at
ReceiveRequest_recorded ==
    /\ nrecv < MaxReceive
    /\ nrecv' = nrecv + 1
    /\ recvErr' = "UnexpectedMessageError"
    /\ trace' = <<>>
    /\ lastResp' = 1
    /\ UNCHANGED <<isInvite, reliable, state, lastErr, timer_a_time,
                   timer_a, timer_b, timer_d_time, timer_d, out, cancelled,
                   origin, sent, receiving>>
    /\ UNCHANGED <<poolvars, parservars, fnvars>>

\* clientTx.Receive of a message that is not a response (a request)
ReceiveRequest ==
    /\ nrecv < MaxReceive
    /\ nrecv' = nrecv + 1
    /\ recvErr' = "UnexpectedMessageError"
    /\ trace' = <<>>
    /\ UNCHANGED <<isInvite, reliable, state, lastResp, lastErr, timer_a_time,
                   timer_a, timer_b, timer_d_time, timer_d, out, cancelled,
                   origin, sent, receiving>>
    /\ UNCHANGED <<poolvars, parservars, fnvars>>

\* the owner closes the cancel channel handed to NewClientTx; the transaction
\* only stores the channel
Cancel ==
    /\ ~cancelled
    /\ cancelled' = TRUE
    /\ trace' = <<>>
    /\ UNCHANGED <<isInvite, reliable, state, lastResp, lastErr, timer_a_time,
                   timer_a, timer_b, timer_d_time, timer_d, out, nrecv, recvErr,
                   origin, sent, receiving>>
    /\ UNCHANGED <<poolvars, parservars, fnvars>>

\* timer A fires: its callback spins client_input_timer_a
TimerA ==
    /\ timer_a = "armed"
    /\ Count("request") < MaxResend
    /\ \E ok \in BOOLEAN :
         (\E w \in {Spin([Cur EXCEPT !.timer_a = "fired", !.trace = <<>>], client_input_timer_a, ok)} : Apply(w))
    /\ UNCHANGED <<nrecv, recvErr, receiving>>

\* timer B fires: its callback spins client_input_timer_b
TimerB ==
    /\ timer_b = "armed"
    /\ (\E w \in {Spin([Cur EXCEPT !.timer_b = "fired", !.trace = <<>>], client_input_timer_b, TRUE)} : Apply(w))
    /\ UNCHANGED <<nrecv, recvErr, receiving>>

\* timer D fires: its callback spins client_input_timer_d
TimerD ==
    /\ timer_d = "armed"
    /\ (\E w \in {Spin([Cur EXCEPT !.timer_d = "fired", !.trace = <<>>], client_input_timer_d, TRUE)} : Apply(w))
    /\ UNCHANGED <<nrecv, recvErr, receiving>>

Next ==
    \/ \E res \in StatusCodes : Receive(res)
    \/ ReceiveRequest
    \/ Cancel
    \/ TimerA
    \/ TimerB
    \/ TimerD

Spec == Init /\ [][Next]_vars

\* ---- Receive called from two goroutines ----
\* clientTx.Receive takes no lock: the assignment to tx.lastResp and the call
\* of tx.fsm.Spin are two steps, and another call can run between them.

\* first half of Receive by caller c: tx.lastResp = res
ReceiveStore(c, res) ==
    /\ nrecv < MaxReceive
    /\ receiving[c] = 0
    /\ nrecv' = nrecv + 1
    /\ receiving' = [receiving EXCEPT ![c] = res]
    /\ lastResp' = res
    /\ trace' = <<>>
    /\ UNCHANGED <<isInvite, reliable, state, lastErr, timer_a_time, timer_a,
                   timer_b, timer_d_time, timer_d, out, recvErr, cancelled,
                   origin, sent>>
    /\ UNCHANGED <<poolvars, parservars, fnvars>>

\* second half of Receive by caller c: the input is chosen from the caller's
\* own response, the FSM's actions read tx.lastResp
ReceiveSpin(c) ==
    /\ receiving[c] # 0
    /\ receiving' = [receiving EXCEPT ![c] = 0]
    /\ \E ok \in BOOLEAN :
         (\E w \in {Spin([Cur EXCEPT !.trace = <<>>], ReceiveInput(receiving[c]), ok)} :
            /\ Apply(w)
            /\ recvErr' = SpinErr(w))
    /\ UNCHANGED nrecv

RaceNext ==
    \/ \E c \in Receivers, res \in StatusCodes : ReceiveStore(c, res)
    \/ \E c \in Receivers : ReceiveSpin(c)
    \/ TimerA
    \/ TimerB
    \/ TimerD

RaceSpec == Init /\ [][RaceNext]_vars

\* the timers the transaction started eventually fire
FairSpec == Spec /\ WF_vars(TimerA) /\ WF_vars(TimerB) /\ WF_vars(TimerD)

TypeOK ==
    /\ state \in ClientStates
    /\ lastResp \in StatusCodes \cup {0}
    /\ timer_a \in {"nil", "armed", "fired"}
    /\ timer_b \in {"armed", "fired"}
    /\ timer_d \in {"nil", "armed", "fired"}


\* ---- connection pool: the transaction is left alone ----
TxIdle ==
    /\ isInvite = FALSE
    /\ reliable = TRUE
    /\ state = client_state_calling
    /\ lastResp = 0
    /\ lastErr = "nil"
    /\ timer_a_time = 0
    /\ timer_a = "nil"
    /\ timer_b = "armed"
    /\ timer_d_time = 0
    /\ timer_d = "nil"
    /\ out = <<>>
    /\ trace = <<>>
    /\ nrecv = 0
    /\ recvErr = "nil"
    /\ cancelled = FALSE
    /\ origin = NewRequest("OPTIONS", <<>>)
    /\ sent = NoMessage
    /\ receiving = [c \in Receivers |-> 0]

\* ---- connection handler ----

\* handler.ctx is done: the handler was cancelled, or the pool's context was
CtxDone(h) == handlers[h].cancelled \/ poolCtxDone

\* NewConnectionHandler: the timer is started with ttl and the expiry instant
\* is ttl from now
NewConnectionHandler(key, conn, ttl) ==
    [pc |-> "loop", key |-> key, connection |-> conn, expiryTime |-> ttl,
     timer |-> ttl, tick |-> FALSE, cancelled |-> FALSE, err |-> "nil",
     closed |-> 0, held |-> FALSE]

\* variant of Update: the timer is made anew, a tick it had sent is lost
Update_newTimer(hr, ttl) ==
    [hr EXCEPT !.expiryTime = ttl, !.timer = ttl, !.tick = FALSE]

\* connectionHandler.Update: a new expiry instant, the timer is reset (a tick
\* already in the timer's channel stays there)
Update(hr, ttl) == [hr EXCEPT !.expiryTime = ttl, !.timer = ttl]

\* the deferred part of connectionHandler.Serve: dispose stops the timer and
\* closes the connection
Return(hr) ==
    [hr EXCEPT !.pc = "done", !.timer = NoDeadline, !.tick = FALSE,
               !.closed = hr.closed + 1,
               \* nothing reads these of a handler that has returned
               !.expiryTime = 0, !.err = "nil"]

\* the handler's timer runs out: a tick is put in the timer's channel
TimerFire(h) ==
    /\ handlers[h].timer \in {0, Passed}
    /\ handlers' = [handlers EXCEPT ![h].timer = NoDeadline, ![h].tick = TRUE]
    /\ UNCHANGED <<poolCtxDone, store, servePc, errs>>
    /\ UNCHANGED <<adding, txvars, parservars, fnvars>>

\* the deferred part of connectionHandler.Serve when the parse task holds a
\* message for the handler: parser.Stop() waits for the parse task, which
\* waits at its send on parsedMessages for the loop that has been left;
\* dispose is not reached
StopWaits(hr) ==
    [hr EXCEPT !.pc = "stopping", !.held = FALSE,
               \* nothing reads these of a handler that has left its loop
               !.timer = NoDeadline, !.tick = FALSE, !.expiryTime = 0, !.err = "nil"]

\* the deferred function of connectionHandler.Serve: parser.Stop(), then
\* handler.dispose()
Deferred(hr) == IF hr.held THEN StopWaits(hr) ELSE Return(hr)

\* connectionHandler.Serve, case <-handler.ctx.Done() of the loop, of the
\* notification and of the sends of an error
HandlerCancelled(h) ==
    /\ handlers[h].pc \in {"loop", "notify", "errs"}
    /\ CtxDone(h)
    /\ handlers' = [handlers EXCEPT ![h] = Deferred(handlers[h])]
    /\ UNCHANGED <<poolCtxDone, store, servePc, errs>>
    /\ UNCHANGED <<adding, txvars, parservars, fnvars>>

\* connectionHandler.Serve, case <-handler.timer.C()
HandlerTimer(h) ==
    /\ handlers[h].pc = "loop"
    /\ handlers[h].tick
    /\ handlers' = [handlers EXCEPT ![h].tick = FALSE, ![h].pc = "notify"]
    /\ UNCHANGED <<poolCtxDone, store, servePc, errs>>
    /\ UNCHANGED <<adding, txvars, parservars, fnvars>>

\* what a Read of the connection gives: a timeout or temporary error, an error
\* that is neither (the connection is broken or closed), or bytes the parser
\* rejects
ReadOutcomes == {"timeout", "broken", "syntax"}

\* connectionHandler.Serve, default case: taken when no other case is ready.
\* After a timeout the loop goes on; a broken connection and a parser error are
\* sent on handler.errs, which is pool.handlerErrors: unbuffered, and nothing
\* receives from it, so the send waits until the context is done.
HandlerRead(h) ==
    /\ handlers[h].pc = "loop"
    /\ ~handlers[h].tick
    /\ ~handlers[h].held
    /\ ~CtxDone(h)
    /\ \E r \in ReadOutcomes :
         handlers' = IF r = "timeout" THEN handlers
                     ELSE [handlers EXCEPT ![h].pc = "errs", ![h].err = r]
    /\ UNCHANGED <<poolCtxDone, store, servePc, errs>>
    /\ UNCHANGED <<adding, txvars, parservars, fnvars>>

\* connectionHandler.Serve, default case, Read gives the bytes of a message:
\* they are written to the parser, whose parse task builds the message and
\* waits at its send on parsedMessages
HandlerReadMessage(h) ==
    /\ handlers[h].pc = "loop"
    /\ ~handlers[h].tick
    /\ ~handlers[h].held
    /\ ~CtxDone(h)
    /\ handlers' = [handlers EXCEPT ![h].held = TRUE]
    /\ UNCHANGED <<poolCtxDone, store, servePc, errs>>
    /\ UNCHANGED <<adding, txvars, parservars, fnvars>>

\* connectionHandler.Serve, case msg := <-parsedMessages: the message is
\* passed up on handler.output, which the pool's owner receives from
HandlerMessage(h) ==
    /\ handlers[h].pc = "loop"
    /\ handlers[h].held
    /\ handlers' = [handlers EXCEPT ![h].held = FALSE]
    /\ UNCHANGED <<poolCtxDone, store, servePc, errs>>
    /\ UNCHANGED <<adding, txvars, parservars, fnvars>>

\* ---- connection pool ----

getHandler(st, key) == st[key]

\* connectionPool.Get
Get(st, hs, key) ==
    IF getHandler(st, key) # NoHandlerId
    THEN <<hs[getHandler(st, key)].connection, TRUE>>
    ELSE <<NoConnection, FALSE>>

\* variant of Drop: the handler is taken out of the store and not cancelled
Drop_forget(st, hs, key) ==
    IF getHandler(st, key) # NoHandlerId
    THEN [store |-> [st EXCEPT ![key] = NoHandlerId], handlers |-> hs, ret |-> TRUE]
    ELSE [store |-> st, handlers |-> hs, ret |-> FALSE]

\* connectionPool.Drop on store st and handlers hs
Drop(st, hs, key) ==
    IF getHandler(st, key) # NoHandlerId
    THEN [store |-> [st EXCEPT ![key] = NoHandlerId],
          handlers |-> [hs EXCEPT ![getHandler(st, key)].cancelled = TRUE],
          ret |-> TRUE]
    ELSE [store |-> st, handlers |-> hs, ret |-> FALSE]

\* the id of the next handler spawned
Fresh(h) == handlers[h].pc = "none" /\ \A g \in HandlerIds : g < h => handlers[g].pc # "none"

\* what connectionPool.Add returns
AddErr == IF poolCtxDone THEN "context canceled" ELSE "nil"

\* connectionPool.Add
Add(key, conn, ttl) ==
    /\ IF poolCtxDone
       THEN UNCHANGED <<store, handlers>>
       ELSE IF getHandler(store, key) = NoHandlerId
            THEN \E h \in HandlerIds :
                   /\ Fresh(h)
                   /\ handlers' = [handlers EXCEPT ![h] = NewConnectionHandler(key, conn, ttl)]
                   /\ store' = [store EXCEPT ![key] = h]
            ELSE /\ handlers' = [handlers EXCEPT ![getHandler(store, key)] = Update(@, ttl)]
                 /\ UNCHANGED store
    /\ UNCHANGED <<poolCtxDone, servePc, errs>>
    /\ UNCHANGED <<adding, txvars, parservars, fnvars>>

\* connectionPool.Add up to the return of getHandler: the key is looked up
\* under the read lock, which is released before anything else is done
AddLookup(c, key, conn, ttl) ==
    /\ adding[c].pc = "idle"
    /\ ~poolCtxDone
    /\ adding' = [adding EXCEPT ![c] = [pc |-> "lookedUp", key |-> key, connection |-> conn,
                                        ttl |-> ttl, found |-> getHandler(store, key)]]
    /\ UNCHANGED <<poolCtxDone, store, handlers, servePc, errs>>
    /\ UNCHANGED <<txvars, parservars, fnvars>>

\* connectionPool.Add after getHandler: when the key was not found a handler
\* is made, stored with addHandler and spawned, whatever the store holds by
\* now; otherwise the handler that was found is updated
AddStore(c) ==
    /\ adding[c].pc = "lookedUp"
    /\ IF adding[c].found = NoHandlerId
       THEN \E h \in HandlerIds :
              /\ Fresh(h)
              /\ handlers' = [handlers EXCEPT ![h] =
                                NewConnectionHandler(adding[c].key, adding[c].connection,
                                                     adding[c].ttl)]
              /\ store' = [store EXCEPT ![adding[c].key] = h]
       ELSE /\ handlers' = [handlers EXCEPT ![adding[c].found] =
                              IF @.pc \in {"done", "stopping"} THEN @ ELSE Update(@, adding[c].ttl)]
            /\ UNCHANGED store
    /\ adding' = [adding EXCEPT ![c] = NoCall]
    /\ UNCHANGED <<poolCtxDone, servePc, errs>>
    /\ UNCHANGED <<txvars, parservars, fnvars>>

\* a caller's connectionPool.Drop
CallDrop(key) ==
    /\ \E d \in {Drop(store, handlers, key)} :
         /\ store' = d.store
         /\ handlers' = d.handlers
    /\ UNCHANGED <<poolCtxDone, servePc, errs>>
    /\ UNCHANGED <<adding, txvars, parservars, fnvars>>

\* connectionHandler.Serve, case handler.expired <- handler, met by
\* connectionPool.Serve's case handler := <-pool.expiredHandlers (the channel
\* is unbuffered), and what pool.Serve does with the handler it received: h is
\* the handler that sent, and the handler dropped is the one stored under h's
\* key
ServeExpired(h) ==
    /\ handlers[h].pc = "notify"
    /\ servePc = "select"
    /\ LET key == handlers[h].key
           hs == [handlers EXCEPT ![h].pc = "loop"]
       IN IF getHandler(store, key) = NoHandlerId
          THEN handlers' = hs /\ UNCHANGED store
          ELSE IF hs[h].expiryTime < 0
               THEN \E d \in {Drop(store, hs, key)} :
                      store' = d.store /\ handlers' = d.handlers
               ELSE handlers' = hs /\ UNCHANGED store
    /\ UNCHANGED <<poolCtxDone, servePc, errs>>
    /\ UNCHANGED <<adding, txvars, parservars, fnvars>>

\* connectionPool.dispose, first part: every handler of the store is dropped
RECURSIVE DropAll(_, _, _)
DropAll(st, hs, keys) ==
    IF keys = {} THEN [store |-> st, handlers |-> hs]
    ELSE LET k == CHOOSE x \in keys : TRUE
             d == Drop(st, hs, k)
         IN DropAll(d.store, d.handlers, keys \ {k})

\* connectionPool.Serve, case <-pool.ctx.Done(): return, and the deferred
\* dispose drops every handler
ServeDone ==
    /\ servePc = "select"
    /\ poolCtxDone
    /\ servePc' = "wait"
    /\ \E d \in {DropAll(store, handlers, ConnKeys)} :
         store' = d.store /\ handlers' = d.handlers
    /\ UNCHANGED <<poolCtxDone, errs>>
    /\ UNCHANGED <<adding, txvars, parservars, fnvars>>

\* connectionPool.dispose, second part: pool.wg.Wait() is over when every
\* handler's Serve has returned; then the channels are closed
ServeDisposed ==
    /\ servePc = "wait"
    /\ \A h \in HandlerIds : handlers[h].pc \in {"none", "done"}
    /\ servePc' = "returned"
    /\ UNCHANGED <<poolCtxDone, store, handlers, errs>>
    /\ UNCHANGED <<adding, txvars, parservars, fnvars>>

\* the owner of the pool cancels the context given to NewConnectionPool
PoolCancel ==
    /\ ~poolCtxDone
    /\ poolCtxDone' = TRUE
    /\ UNCHANGED <<store, handlers, servePc, errs>>
    /\ UNCHANGED <<adding, txvars, parservars, fnvars>>

\* an instant one step of the clock later
Later(t) == IF t > Passed THEN t - 1 ELSE t

\* the clock advances
Tick ==
    /\ handlers' = [h \in HandlerIds |->
                      IF handlers[h].pc \in {"none", "done", "stopping"} THEN handlers[h]
                      ELSE [handlers[h] EXCEPT !.expiryTime = Later(@), !.timer = Later(@)]]
    /\ UNCHANGED <<poolCtxDone, store, servePc, errs>>
    /\ UNCHANGED <<adding, txvars, parservars, fnvars>>

PoolInit == TxIdle /\ NewConnectionPool /\ NewParser(FALSE) /\ NoCallMade

PoolNext ==
    \/ \E key \in ConnKeys, conn \in Connections, ttl \in Ttls : Add(key, conn, ttl)
    \/ \E key \in ConnKeys : CallDrop(key)
    \/ \E h \in HandlerIds : TimerFire(h)
    \/ \E h \in HandlerIds : HandlerCancelled(h)
    \/ \E h \in HandlerIds : HandlerTimer(h)
    \/ \E h \in HandlerIds : HandlerRead(h)
    \/ \E h \in HandlerIds : ServeExpired(h)
    \/ ServeDone
    \/ ServeDisposed
    \/ PoolCancel
    \/ Tick

PoolSpec == PoolInit /\ [][PoolNext]_vars

\* the clock advances, timers run out, and the goroutines of the handlers and
\* of pool.Serve are scheduled
PoolFairSpec ==
    /\ PoolSpec
    /\ WF_vars(Tick)
    /\ WF_vars(ServeDone) /\ WF_vars(ServeDisposed)
    /\ \A h \in HandlerIds :
         /\ WF_vars(TimerFire(h))
         /\ WF_vars(HandlerCancelled(h))
         /\ WF_vars(HandlerTimer(h))
         /\ WF_vars(ServeExpired(h))

\* Add calls made by several tasks at once, each in its two steps, with Drop,
\* the handlers and pool.Serve, while the clock stands still
PoolRaceNext ==
    \/ \E c \in Callers, key \in ConnKeys, conn \in Connections, ttl \in Ttls :
         AddLookup(c, key, conn, ttl)
    \/ \E c \in Callers : AddStore(c)
    \/ \E key \in ConnKeys : CallDrop(key)
    \/ \E h \in HandlerIds : HandlerCancelled(h)
    \/ \E h \in HandlerIds : HandlerRead(h)
    \/ ServeDone
    \/ ServeDisposed
    \/ PoolCancel

PoolRaceSpec == PoolInit /\ [][PoolRaceNext]_vars

\* the pool with handlers whose connections deliver messages, while the clock
\* stands still: a Read can bring a message, which the parse task holds until
\* the handler takes it
PoolStopNext ==
    \/ \E key \in ConnKeys, conn \in Connections, ttl \in Ttls : Add(key, conn, ttl)
    \/ \E key \in ConnKeys : CallDrop(key)
    \/ \E h \in HandlerIds : HandlerCancelled(h)
    \/ \E h \in HandlerIds : HandlerRead(h)
    \/ \E h \in HandlerIds : HandlerReadMessage(h)
    \/ \E h \in HandlerIds : HandlerMessage(h)
    \/ ServeDone
    \/ ServeDisposed
    \/ PoolCancel

PoolStopSpec == PoolInit /\ [][PoolStopNext]_vars

\* the goroutines of the handlers and of pool.Serve are scheduled
PoolStopFairSpec ==
    /\ PoolStopSpec
    /\ WF_vars(ServeDone) /\ WF_vars(ServeDisposed)
    /\ \A h \in HandlerIds :
         /\ WF_vars(HandlerCancelled(h))
         /\ WF_vars(HandlerMessage(h))

\* ---- message parser ----

\* the byte strings given to Write: nothing; text without a line end; a
\* message with a well-formed start line, complete, without and with a body,
\* and with a Content-Length header; a message with a bad start line; a
\* well-formed start line that no blank line follows; a message with two
\* Content-Length headers; a message with an address header
Datagrams ==
    { <<>>,
      <<"x">>,
      <<"s", CR, LF, CR, LF>>,
      <<"s", CR, LF, CR, LF, "x">>,
      <<"s", CR, LF, "c", CR, LF, CR, LF>>,
      <<"x", CR, LF, CR, LF>>,
      <<"s", CR, LF>>,
      <<"s", CR, LF, "c", CR, LF, "c", CR, LF, CR, LF>>,
      <<"s", CR, LF, "a", CR, LF, CR, LF>> }

\* the bytes of data, brought by Write number w
Bytes(data, w) == [i \in 1..Len(data) |-> <<data[i], w>>]

\* strings.Index(s, "\r\n\r\n"): the offset of the first CR LF CR LF, or -1
Index(data) ==
    LET at == {i \in 1..(Len(data) - 3) :
                 /\ data[i] = CR /\ data[i + 1] = LF
                 /\ data[i + 2] = CR /\ data[i + 3] = LF}
    IN IF at = {} THEN -1 ELSE (CHOOSE i \in at : \A j \in at : i <= j) - 1

getBodyLength(data) == Len(data) - (Index(data) + 4)

\* parserBuffer: the position of the CR of the first CR LF, 0 if no line is
\* complete
LineEnd(buf) ==
    LET at == {i \in 1..(Len(buf) - 1) : buf[i][1] = CR /\ buf[i + 1][1] = LF}
    IN IF at = {} THEN 0 ELSE CHOOSE i \in at : \A j \in at : i <= j

\* parserBuffer.NextLine: the line without its terminator, and what is left
NextLine(buf) == SubSeq(buf, 1, LineEnd(buf) - 1)
AfterLine(buf) == SubSeq(buf, LineEnd(buf) + 2, Len(buf))
\* the Write that brought the line's terminator
LineOf(buf) == buf[LineEnd(buf)][2]

\* parserBuffer.NextChunk(n): what is left after n bytes were taken
AfterChunk(buf, n) == SubSeq(buf, n + 1, Len(buf))

\* isRequest or isResponse holds and the line parses
IsStartLine(line) == Len(line) = 1 /\ line[1][1] = "s"

\* a Content-Length header
IsContentLength(line) == Len(line) = 1 /\ line[1][1] = "c"

\* ---- header values (text is a sequence of characters) ----
\* "u" stands for the text of a well-formed SIP URI, which has none of the
\* characters below.

Quote == "\""
Space == " "

\* strings.Index(text, ch): the offset of the first ch, or -1
IndexOf(text, ch) ==
    LET at == {i \in 1..Len(text) : text[i] = ch}
    IN IF at = {} THEN -1 ELSE (CHOOSE i \in at : \A j \in at : i <= j) - 1

\* strings.TrimSpace
TrimSpace(text) ==
    LET at == {i \in 1..Len(text) : text[i] # Space}
    IN IF at = {} THEN <<>>
       ELSE SubSeq(text, CHOOSE i \in at : \A j \in at : i <= j,
                         CHOOSE i \in at : \A j \in at : i >= j)

\* findAnyUnescaped with the quotes as only delimiter, from position idx on
RECURSIVE findAnyUnescaped(_, _, _, _)
findAnyUnescaped(text, target, idx, escaped) ==
    IF idx > Len(text) THEN -1
    ELSE IF ~escaped /\ text[idx] = target THEN idx - 1
    ELSE IF escaped THEN findAnyUnescaped(text, target, idx + 1, text[idx] # Quote)
    ELSE findAnyUnescaped(text, target, idx + 1, text[idx] = Quote)

\* findUnescaped(text, target, quotesDelim)
findUnescaped(text, target) == findAnyUnescaped(text, target, 1, FALSE)

\* ParseUri, as far as its result is an error or not
ParseUri(uriStr) == IF uriStr = <<"u">> THEN "ok" ELSE "error"

\* ---- start lines (text is a sequence of characters) ----

DigitChars == <<"0", "1", "2", "3", "4", "5", "6", "7", "8", "9">>

IsDigit(c) == \E i \in 1..10 : DigitChars[i] = c

DigitVal(c) == (CHOOSE i \in 1..10 : DigitChars[i] = c) - 1

\* the number a string of digits denotes
RECURSIVE UintValue(_)
UintValue(text) ==
    IF text = <<>> THEN 0
    ELSE 10 * UintValue(SubSeq(text, 1, Len(text) - 1)) + DigitVal(text[Len(text)])

\* strconv.ParseUint(text, 10, bitSize): a syntax error for an empty string
\* and for any character that is no digit, a range error (with the largest
\* value) for a number that does not fit bitSize bits
ParseUint(text, bitSize) ==
    IF text = <<>> \/ \E i \in 1..Len(text) : ~IsDigit(text[i])
    THEN [val |-> 0, err |-> "syntax"]
    ELSE IF UintValue(text) >= 2 ^ bitSize
    THEN [val |-> 2 ^ bitSize - 1, err |-> "range"]
    ELSE [val |-> UintValue(text), err |-> "nil"]

\* strings.Count(text, ch)
CountOf(text, ch) == Cardinality({i \in 1..Len(text) : text[i] = ch})

\* strings.Split(text, ch)
RECURSIVE Split(_, _)
Split(text, ch) ==
    IF IndexOf(text, ch) = -1 THEN <<text>>
    ELSE <<SubSeq(text, 1, IndexOf(text, ch))>>
           \o Split(SubSeq(text, IndexOf(text, ch) + 2, Len(text)), ch)

\* strings.ToUpper, on the letters used here
ToUpper(text) ==
    [i \in 1..Len(text) |->
       CASE text[i] = "s" -> "S" [] text[i] = "i" -> "I" [] text[i] = "p" -> "P"
         [] OTHER -> text[i]]

\* strings.Join(parts, "")
RECURSIVE Join(_)
Join(parts) == IF parts = <<>> THEN <<>> ELSE Head(parts) \o Join(Tail(parts))

isRequest(startLine) ==
    /\ CountOf(startLine, Space) = 2
    /\ Len(Split(startLine, Space)) >= 3
    /\ Len(Split(startLine, Space)[3]) >= 3
    /\ ToUpper(SubSeq(Split(startLine, Space)[3], 1, 3)) = <<"S", "I", "P">>

isResponse(startLine) ==
    /\ CountOf(startLine, Space) >= 2
    /\ Len(Split(startLine, Space)) >= 3
    /\ Len(Split(startLine, Space)[1]) >= 3
    /\ ToUpper(SubSeq(Split(startLine, Space)[1], 1, 3)) = <<"S", "I", "P">>

\* parseRequestLine, as far as its result is an error or not
parseRequestLine(requestLine) ==
    LET parts == Split(requestLine, Space) IN
    IF Len(parts) # 3 THEN "error" ELSE ParseUri(parts[2])

\* parseStatusLine: the status code is whatever number of 16 bits the second
\* field denotes
parseStatusLine(statusLine) ==
    LET parts == Split(statusLine, Space) IN
    IF Len(parts) < 3
    THEN [sipVersion |-> <<>>, statusCode |-> 0, reasonPhrase |-> <<>>, err |-> "too few spaces"]
    ELSE [sipVersion |-> parts[1],
          statusCode |-> ParseUint(parts[2], 16).val,
          reasonPhrase |-> Join(SubSeq(parts, 3, Len(parts))),
          err |-> ParseUint(parts[2], 16).err]

\* parser.parse on a start line that an empty header section follows: the
\* message made from the start line is sent on p.output, an
\* InvalidStartLineError on p.errs
parseStart(startLine) ==
    IF isRequest(startLine)
    THEN IF parseRequestLine(startLine) = "ok"
         THEN [fn |-> "parse", ch |-> "output", msg |-> "request", statusCode |-> 0]
         ELSE [fn |-> "parse", ch |-> "errs", msg |-> "InvalidStartLineError", statusCode |-> 0]
    ELSE IF isResponse(startLine)
    THEN IF parseStatusLine(startLine).err = "nil"
         THEN [fn |-> "parse", ch |-> "output", msg |-> "response",
               statusCode |-> parseStatusLine(startLine).statusCode]
         ELSE [fn |-> "parse", ch |-> "errs", msg |-> "InvalidStartLineError", statusCode |-> 0]
    ELSE [fn |-> "parse", ch |-> "errs", msg |-> "InvalidStartLineError", statusCode |-> 0]

\* ---- parseParams ----
\* stands for the character 0, "no delimiter"
Nul == "NUL"

Tab == "TAB"

abnfWs == {Space, Tab}

\* core.Params.Add: the value of a key already there is replaced
ParamsAdd(params, key, val) ==
    IF \E i \in 1..Len(params) : params[i].key = key
    THEN [i \in 1..Len(params) |->
            IF params[i].key = key THEN [key |-> key, val |-> val] ELSE params[i]]
    ELSE Append(params, [key |-> key, val |-> val])

\* a nil value (a key without value), and core.String{text}
NilValue == [nil |-> TRUE, text |-> <<>>]

StringValue(text) == [nil |-> FALSE, text |-> text]

\* the loop of parseParams from source[consumed] on; st holds consumed,
\* buffer, key, parsingKey, inQuotes, params and err
RECURSIVE parseLoop(_, _, _, _, _, _)
parseLoop(source, sep, end, quoteValues, permitSingletons, st) ==
    IF st.consumed >= Len(source) THEN st
    ELSE
      LET c == source[st.consumed + 1]
          write == [st EXCEPT !.buffer = Append(@, c)]
          go(st2) == parseLoop(source, sep, end, quoteValues, permitSingletons,
                               [st2 EXCEPT !.consumed = @ + 1])
          fail(e) == [st EXCEPT !.err = e]
      IN
      IF c = end
      THEN IF st.inQuotes THEN go(write) ELSE st
      ELSE IF c = sep
      THEN IF st.inQuotes THEN go(write)
           ELSE IF st.parsingKey /\ permitSingletons
           THEN go([st EXCEPT !.params = ParamsAdd(@, st.buffer, NilValue),
                              !.buffer = <<>>, !.parsingKey = TRUE])
           ELSE IF st.parsingKey THEN fail("singleton param")
           ELSE go([st EXCEPT !.params = ParamsAdd(@, st.key, StringValue(st.buffer)),
                              !.buffer = <<>>, !.parsingKey = TRUE])
      ELSE IF c = Quote
      THEN IF ~quoteValues THEN go(write)
           ELSE IF st.parsingKey THEN fail("quote in key")
           ELSE IF ~st.inQuotes /\ Len(st.buffer) # 0 THEN fail("quote in value")
           ELSE IF /\ st.inQuotes
                   /\ st.consumed # Len(source) - 1
                   /\ source[st.consumed + 2] # sep
           THEN fail("character after quoted param")
           ELSE go([st EXCEPT !.inQuotes = ~@])
      ELSE IF c = "="
      THEN IF Len(st.buffer) = 0 THEN fail("key of length 0")
           ELSE IF ~st.parsingKey THEN fail("= in value")
           ELSE go([st EXCEPT !.key = st.buffer, !.buffer = <<>>, !.parsingKey = FALSE])
      ELSE IF ~st.inQuotes /\ c \in abnfWs THEN go(st)
      ELSE go(write)

\* parseParams(source, start, sep, end, quoteValues, permitSingletons): the
\* params in the order they were added, the number of characters consumed,
\* and the error ("nil" = none)
parseParams(source, start, sep, end, quoteValues, permitSingletons) ==
    LET st0 == [consumed |-> 0, buffer |-> <<>>, key |-> <<>>, parsingKey |-> TRUE,
                inQuotes |-> FALSE, params |-> <<>>, err |-> "nil"]
        Result(st) == [params |-> st.params, consumed |-> st.consumed, err |-> st.err]
    IN
    IF Len(source) = 0 THEN Result(st0)
    ELSE IF start # Nul /\ source[1] # start THEN Result([st0 EXCEPT !.err = "start"])
    ELSE
      LET st == parseLoop(source, sep, end, quoteValues, permitSingletons,
                          [st0 EXCEPT !.consumed = IF start # Nul THEN 1 ELSE 0])
      IN
      IF st.err # "nil" THEN Result(st)
      ELSE IF st.inQuotes THEN Result([st EXCEPT !.err = "unclosed quotes"])
      ELSE IF st.parsingKey /\ permitSingletons
      THEN Result([st EXCEPT !.params = ParamsAdd(@, st.buffer, NilValue)])
      ELSE IF st.parsingKey THEN Result([st EXCEPT !.err = "singleton param"])
      ELSE Result([st EXCEPT !.params = ParamsAdd(@, st.key, StringValue(st.buffer))])

\* the header parameters of an address: parseParams(text, ';', ';', ',', true, true)
headerParams(text) ==
    IF parseParams(text, ";", ";", ",", TRUE, TRUE).err = "nil" THEN "ok" ELSE "error"

\* parseAddressValue: "ok", "error", or "panic" where an index is out of range
parseAddressValue(text) ==
    IF Len(text) = 0 THEN "error"
    ELSE
      LET trimmed == TrimSpace(text)
          firstAngleBracket == findUnescaped(trimmed, "<")
          named == firstAngleBracket > 0
          quoted == named /\ trimmed[1] = Quote
          unquoted == SubSeq(trimmed, 2, Len(trimmed))
          nextQuote == IndexOf(unquoted, Quote)
      IN
      IF quoted /\ nextQuote = -1 THEN "error"
      ELSE
        LET addressText ==
              TrimSpace(IF quoted THEN SubSeq(unquoted, nextQuote + 2, Len(unquoted))
                        ELSE IF named
                             THEN SubSeq(trimmed, firstAngleBracket + 1, Len(trimmed))
                             ELSE trimmed)
        IN
        IF Len(addressText) = 0 THEN "panic"    \* addressText[0]
        ELSE IF addressText[1] # "<"
        THEN IF named THEN "error"
             ELSE LET semi == IndexOf(addressText, ";")
                      endOfUri == IF semi = -1 THEN Len(addressText) ELSE semi
                  IN IF ParseUri(SubSeq(addressText, 1, endOfUri)) # "ok" THEN "error"
                     ELSE IF endOfUri >= Len(addressText) THEN "ok"
                     ELSE headerParams(SubSeq(addressText, endOfUri + 1, Len(addressText)))
        ELSE LET inner == SubSeq(addressText, 2, Len(addressText))
                 endOfUri == IndexOf(inner, ">")
             IN IF endOfUri = 0 THEN "error"
                ELSE IF endOfUri = -1 THEN "panic"    \* addressText[:endOfUri]
                ELSE IF ParseUri(SubSeq(inner, 1, endOfUri)) # "ok" THEN "error"
                ELSE IF endOfUri + 1 >= Len(inner) THEN "ok"
                ELSE headerParams(SubSeq(inner, endOfUri + 2, Len(inner)))

\* parseAddressValues, from position idx on: the sections between commas that
\* are neither quoted nor in angle brackets go to parseAddressValue
RECURSIVE parseAddressSections(_, _, _, _, _)
parseAddressSections(addresses, idx, prevIdx, inBrackets, inQuotes) ==
    IF idx > Len(addresses) THEN "ok"
    ELSE IF addresses[idx] = "<" /\ ~inQuotes
    THEN parseAddressSections(addresses, idx + 1, prevIdx, TRUE, inQuotes)
    ELSE IF addresses[idx] = ">" /\ ~inQuotes
    THEN parseAddressSections(addresses, idx + 1, prevIdx, FALSE, inQuotes)
    ELSE IF addresses[idx] = Quote
    THEN parseAddressSections(addresses, idx + 1, prevIdx, inBrackets, ~inQuotes)
    ELSE IF ~inQuotes /\ ~inBrackets /\ addresses[idx] = ","
    THEN LET r == parseAddressValue(SubSeq(addresses, prevIdx, idx - 1))
         IN IF r # "ok" THEN r
            ELSE parseAddressSections(addresses, idx + 1, idx + 1, inBrackets, inQuotes)
    ELSE parseAddressSections(addresses, idx + 1, prevIdx, inBrackets, inQuotes)

\* parseAddressValues: a comma is appended to end the last section
parseAddressValues(addresses) ==
    parseAddressSections(Append(addresses, ","), 1, 1, FALSE, FALSE)

\* parseAddressHeader, as far as its result is an error or not
parseAddressHeader(headerText) ==
    IF parseAddressValues(headerText) = "ok" THEN "header"
    ELSE parseAddressValues(headerText)

\* the header line a character of the model stands for: its field name (none
\* when the line has no colon) and its trimmed field text.  "a" is a Contact
\* header whose list has a section made of a space only.
HeaderText(kind) ==
    IF kind = "c" THEN [name |-> "content-length", text |-> <<"0">>]
    ELSE IF kind = "a" THEN [name |-> "contact", text |-> <<"u", ",", Space, ",", "u">>]
    ELSE [name |-> "", text |-> <<>>]

\* parser.parseHeader: "error" (the header is skipped), "panic", or the kind
\* of header parsed
parseHeader(header) ==
    IF header.name = "" THEN "error"
    ELSE IF header.name \in {"to", "from", "contact", "t", "f", "m"}
    THEN parseAddressHeader(header.text)
    ELSE IF header.name \in {"content-length", "l"} THEN "ContentLength"
    ELSE "header"

\* what a line of the header section is taken for
Kind(line) == IF Len(line) = 1 THEN line[1][1] ELSE "x"

\* a task has panicked: the program is over
Panicked == \E t \in TaskIds : tasks[t].pc = "panic"

\* an entry of published
Pub(ch, w, err) == [ch |-> ch, w |-> w, err |-> err]

\* p.input.Stop() was called: NextLine and NextChunk fail once the buffer
\* cannot serve them
InputStopped == stopPc # "none"

\* the parse task started last: p.done is the channel this task closes
LastTask ==
    CHOOSE t \in TaskIds :
      /\ tasks[t].pc # "none"
      /\ \A u \in TaskIds : u > t => tasks[u].pc = "none"

\* parser.Write without its test of p.stopped
Write_unguarded(data) ==
    /\ ~Panicked
    /\ nwritten < MaxWrites
    /\ writeErr' = "nil"
    /\ nwritten' = nwritten + 1
    /\ bodyLengths' = IF streamed THEN bodyLengths
                      ELSE Append(bodyLengths, <<getBodyLength(data), Len(data)>>)
    /\ input' = input \o Bytes(data, nwritten + 1)
    /\ UNCHANGED <<streamed, stopped, terminalErr, tasks, published, nreset, stopPc>>
    /\ UNCHANGED <<txvars, poolvars, fnvars>>

\* parser.Write: refused when p.stopped is set; the terminal error is not
\* looked at
Write(data) ==
    /\ ~Panicked
    /\ IF stopped
       THEN /\ writeErr' = "ParserWriteError"
            /\ UNCHANGED <<nwritten, bodyLengths, input>>
       ELSE /\ nwritten < MaxWrites
            /\ writeErr' = "nil"
            /\ nwritten' = nwritten + 1
            /\ bodyLengths' = IF streamed THEN bodyLengths
                              ELSE Append(bodyLengths, <<getBodyLength(data), Len(data)>>)
            /\ input' = input \o Bytes(data, nwritten + 1)
    /\ UNCHANGED <<streamed, stopped, terminalErr, tasks, published, nreset, stopPc>>
    /\ UNCHANGED <<txvars, poolvars, fnvars>>

\* parser.parse: the start line; the task exits when NextLine fails
ParseStartLine(t) ==
    /\ tasks[t].pc = "start"
    /\ ~Panicked
    /\ IF LineEnd(input) # 0
       THEN /\ input' = AfterLine(input)
            /\ IF IsStartLine(NextLine(input))
               THEN /\ tasks' = [tasks EXCEPT ![t].pc = "headers", ![t].w = LineOf(input),
                                              ![t].cl = 0, ![t].held = ""]
                    /\ UNCHANGED terminalErr
               ELSE /\ tasks' = [tasks EXCEPT ![t].pc = "errs", ![t].w = LineOf(input),
                                              ![t].lineLen = Len(NextLine(input)),
                                              ![t].err = "InvalidStartLine"]
                    /\ terminalErr' = "InvalidStartLine"
       ELSE /\ InputStopped
            /\ tasks' = [tasks EXCEPT ![t].pc = "done"]
            /\ UNCHANGED <<input, terminalErr>>
    /\ UNCHANGED <<streamed, bodyLengths, stopped, published, nwritten, nreset, writeErr, stopPc>>
    /\ UNCHANGED <<txvars, poolvars, fnvars>>

\* parser.parse with a header section that has any Content-Length header at
\* all taken as well-formed
ParseHeaders_anyLength(t) ==
    /\ tasks[t].pc = "headers"
    /\ ~Panicked
    /\ LineEnd(input) # 0 \/ InputStopped
    /\ LET got == LineEnd(input) # 0
           flushed == IF got /\ tasks[t].held # ""
                      THEN parseHeader(HeaderText(tasks[t].held))
                      ELSE "none"
           count == tasks[t].cl + (IF flushed = "ContentLength" THEN 1 ELSE 0)
       IN /\ input' = IF got THEN AfterLine(input) ELSE input
          /\ IF flushed = "panic"
             THEN /\ tasks' = [tasks EXCEPT ![t].pc = "panic"]
                  /\ UNCHANGED terminalErr
             ELSE IF got /\ Len(NextLine(input)) # 0
             THEN /\ tasks' = [tasks EXCEPT ![t].cl = IF count < 2 THEN count ELSE 2,
                                            ![t].held = Kind(NextLine(input))]
                  /\ UNCHANGED terminalErr
             ELSE IF ~streamed
                  THEN /\ tasks' = [tasks EXCEPT ![t].pc = "length", ![t].cl = count,
                                                 ![t].held = ""]
                       /\ UNCHANGED terminalErr
                  ELSE IF count >= 1
                       THEN /\ tasks' = [tasks EXCEPT ![t].pc = "body", ![t].cl = count,
                                                      ![t].held = "", ![t].n = 0]
                            /\ UNCHANGED terminalErr
                       ELSE /\ tasks' = [tasks EXCEPT ![t].pc = "errs", ![t].cl = count,
                                                      ![t].held = "",
                                                      ![t].err = "MalformedMessage"]
                            /\ terminalErr' = "MalformedMessage"
    /\ UNCHANGED <<streamed, bodyLengths, stopped, published, nwritten, nreset, writeErr, stopPc>>
    /\ UNCHANGED <<txvars, poolvars, fnvars>>

\* parser.parse: a line of the header section.  A header line is held in the
\* buffer and parsed (flushBuffer, parseHeader) when the next header line or
\* the blank line is read; when NextLine fails the loop is left without
\* flushBuffer.  A header that parseHeader rejects is skipped.  Then the
\* length of the body is looked for: count is the number of Content-Length
\* headers of the message.
ParseHeaders(t) ==
    /\ tasks[t].pc = "headers"
    /\ ~Panicked
    /\ LineEnd(input) # 0 \/ InputStopped
    /\ LET got == LineEnd(input) # 0
           flushed == IF got /\ tasks[t].held # ""
                      THEN parseHeader(HeaderText(tasks[t].held))
                      ELSE "none"
           count == tasks[t].cl + (IF flushed = "ContentLength" THEN 1 ELSE 0)
       IN /\ input' = IF got THEN AfterLine(input) ELSE input
          /\ IF flushed = "panic"
             THEN /\ tasks' = [tasks EXCEPT ![t].pc = "panic"]
                  /\ UNCHANGED terminalErr
             ELSE IF got /\ Len(NextLine(input)) # 0
             THEN /\ tasks' = [tasks EXCEPT ![t].cl = IF count < 2 THEN count ELSE 2,
                                            ![t].held = Kind(NextLine(input))]
                  /\ UNCHANGED terminalErr
             ELSE IF ~streamed
                  THEN /\ tasks' = [tasks EXCEPT ![t].pc = "length", ![t].cl = count,
                                                 ![t].held = ""]
                       /\ UNCHANGED terminalErr
                  ELSE IF count = 1
                       THEN /\ tasks' = [tasks EXCEPT ![t].pc = "body", ![t].cl = count,
                                                      ![t].held = "", ![t].n = 0]
                            /\ UNCHANGED terminalErr
                       ELSE /\ tasks' = [tasks EXCEPT ![t].pc = "errs", ![t].cl = count,
                                                      ![t].held = "",
                                                      ![t].err = "MalformedMessage"]
                            /\ terminalErr' = "MalformedMessage"
    /\ UNCHANGED <<streamed, bodyLengths, stopped, published, nwritten, nreset, writeErr, stopPc>>
    /\ UNCHANGED <<txvars, poolvars, fnvars>>

\* parser.parse, not streamed: contentLength is taken from p.bodyLengths; the
\* task waits while the queue is empty
ParseLength(t) ==
    /\ tasks[t].pc = "length"
    /\ ~Panicked
    /\ bodyLengths # <<>>
    /\ tasks' = [tasks EXCEPT ![t].pc = "body", ![t].n = Head(bodyLengths)[1]]
    /\ bodyLengths' = Tail(bodyLengths)
    /\ UNCHANGED <<streamed, input, stopped, terminalErr, published, nwritten, nreset,
                   writeErr, stopPc>>
    /\ UNCHANGED <<txvars, poolvars, fnvars>>

\* parser.parse: the body is taken with NextChunk(contentLength).  For a
\* negative length NextChunk either panics or gives nothing, and then the
\* body is shorter than contentLength.  NextChunk fails when the buffer is
\* stopped before it holds contentLength bytes.
ParseBody(t) ==
    /\ tasks[t].pc = "body"
    /\ ~Panicked
    /\ IF tasks[t].n < 0
       THEN /\ \/ /\ tasks' = [tasks EXCEPT ![t].pc = "panic"]
                  /\ UNCHANGED terminalErr
               \/ /\ tasks' = [tasks EXCEPT ![t].pc = "errs", ![t].err = "BrokenMessage"]
                  /\ terminalErr' = "BrokenMessage"
            /\ UNCHANGED input
       ELSE IF Len(input) >= tasks[t].n
            THEN /\ input' = AfterChunk(input, tasks[t].n)
                 /\ tasks' = [tasks EXCEPT ![t].pc = "output"]
                 /\ UNCHANGED terminalErr
            ELSE /\ InputStopped
                 /\ tasks' = [tasks EXCEPT ![t].pc = "errs", ![t].err = "BrokenMessage"]
                 /\ terminalErr' = "BrokenMessage"
                 /\ UNCHANGED input
    /\ UNCHANGED <<streamed, bodyLengths, stopped, published, nwritten, nreset, writeErr, stopPc>>
    /\ UNCHANGED <<txvars, poolvars, fnvars>>

\* parser.parse: p.output <- msg.  The channel has no buffer: the send is
\* taken by the owner of the parser, who calls Stop when it stops receiving
\* (ParseMessage, connectionHandler.Serve).
ParseOutput(t) ==
    /\ tasks[t].pc = "output"
    /\ ~Panicked
    /\ stopPc = "none"
    /\ published' = Append(published, Pub("output", tasks[t].w, "nil"))
    /\ tasks' = [tasks EXCEPT ![t] = NewTask]
    /\ UNCHANGED <<streamed, input, bodyLengths, stopped, terminalErr, nwritten, nreset,
                   writeErr, stopPc>>
    /\ UNCHANGED <<txvars, poolvars, fnvars>>

\* parser.parse: p.errs <- termErr, taken by the owner of the parser as
\* p.output is; after a bad start line, not streamed, the rest of the message
\* is to be skipped
ParseErrs(t) ==
    /\ tasks[t].pc = "errs"
    /\ ~Panicked
    /\ stopPc = "none"
    /\ published' = Append(published, Pub("errs", tasks[t].w, tasks[t].err))
    /\ tasks' = [tasks EXCEPT ![t] =
                   IF tasks[t].err = "InvalidStartLine" /\ ~streamed
                   THEN [NoTask EXCEPT !.pc = "skipLength", !.w = tasks[t].w,
                                       !.lineLen = tasks[t].lineLen]
                   ELSE NewTask]
    /\ UNCHANGED <<streamed, input, bodyLengths, stopped, terminalErr, nwritten, nreset,
                   writeErr, stopPc>>
    /\ UNCHANGED <<txvars, poolvars, fnvars>>

\* parser.parse, after a bad start line: the entry of p.bodyLengths gives how
\* much is skipped
ParseSkipLength(t) ==
    /\ tasks[t].pc = "skipLength"
    /\ ~Panicked
    /\ bodyLengths # <<>>
    /\ tasks' = [tasks EXCEPT ![t].pc = "skip",
                              ![t].n = Head(bodyLengths)[2] - tasks[t].lineLen - 2,
                              ![t].lineLen = 0]
    /\ bodyLengths' = Tail(bodyLengths)
    /\ UNCHANGED <<streamed, input, stopped, terminalErr, published, nwritten, nreset,
                   writeErr, stopPc>>
    /\ UNCHANGED <<txvars, poolvars, fnvars>>

\* parser.parse, after a bad start line: p.input.NextChunk(skip), its result
\* is not looked at
ParseSkip(t) ==
    /\ tasks[t].pc = "skip"
    /\ ~Panicked
    /\ IF tasks[t].n < 0
       THEN /\ \/ tasks' = [tasks EXCEPT ![t].pc = "panic"]
               \/ tasks' = [tasks EXCEPT ![t] = NewTask]
            /\ UNCHANGED input
       ELSE IF Len(input) >= tasks[t].n
            THEN /\ input' = AfterChunk(input, tasks[t].n)
                 /\ tasks' = [tasks EXCEPT ![t] = NewTask]
            ELSE /\ InputStopped
                 /\ tasks' = [tasks EXCEPT ![t] = NewTask]
                 /\ UNCHANGED input
    /\ UNCHANGED <<streamed, bodyLengths, stopped, terminalErr, published, nwritten, nreset,
                   writeErr, stopPc>>
    /\ UNCHANGED <<txvars, poolvars, fnvars>>

\* the errors published so far
ErrsPublished == Cardinality({i \in 1..Len(published) : published[i].ch = "errs"})

\* parser.Reset, called by the owner of the parser for an error it received
\* (connectionHandler.Serve, case err := <-parserErrors): one more parse task
Reset ==
    /\ ~Panicked
    /\ stopPc = "none"
    /\ nreset < ErrsPublished
    /\ \E t \in TaskIds :
         /\ tasks[t].pc = "none"
         /\ \A u \in TaskIds : u < t => tasks[u].pc # "none"
         /\ tasks' = [tasks EXCEPT ![t] = NewTask]
    /\ stopped' = FALSE
    /\ terminalErr' = "nil"
    /\ nreset' = nreset + 1
    /\ UNCHANGED <<streamed, input, bodyLengths, published, nwritten, writeErr, stopPc>>
    /\ UNCHANGED <<txvars, poolvars, fnvars>>

\* parser.Stop, up to "<-p.done": the flag is set, the input buffer and the
\* queue of body lengths are stopped
Stop ==
    /\ ~Panicked
    /\ stopPc = "none"
    /\ stopped' = TRUE
    /\ stopPc' = "waiting"
    /\ UNCHANGED <<streamed, input, bodyLengths, terminalErr, tasks, published, nwritten,
                   nreset, writeErr>>
    /\ UNCHANGED <<txvars, poolvars, fnvars>>

\* parser.Stop: "<-p.done" is passed once the parse task has exited
StopDone ==
    /\ stopPc = "waiting"
    /\ tasks[LastTask].pc = "done"
    /\ stopPc' = "returned"
    /\ UNCHANGED <<streamed, input, bodyLengths, stopped, terminalErr, tasks, published,
                   nwritten, nreset, writeErr>>
    /\ UNCHANGED <<txvars, poolvars, fnvars>>

ParserInit ==
    TxIdle /\ NewConnectionPool /\ (\E mode \in BOOLEAN : NewParser(mode)) /\ NoCallMade

ParserNext ==
    \/ \E data \in Datagrams : Write(data)
    \/ \E t \in TaskIds : ParseStartLine(t)
    \/ \E t \in TaskIds : ParseHeaders(t)
    \/ \E t \in TaskIds : ParseLength(t)
    \/ \E t \in TaskIds : ParseBody(t)
    \/ \E t \in TaskIds : ParseOutput(t)
    \/ \E t \in TaskIds : ParseErrs(t)
    \/ \E t \in TaskIds : ParseSkipLength(t)
    \/ \E t \in TaskIds : ParseSkip(t)
    \/ Reset
    \/ Stop
    \/ StopDone

ParserSpec == ParserInit /\ [][ParserNext]_vars

\* every parse task is scheduled, whoever reads p.output and p.errs goes on
\* reading until it calls Stop, and Stop is scheduled
ParserFairSpec ==
    /\ ParserSpec
    /\ WF_vars(StopDone)
    /\ \A t \in TaskIds :
         /\ WF_vars(ParseStartLine(t))
         /\ WF_vars(ParseHeaders(t))
         /\ WF_vars(ParseLength(t))
         /\ WF_vars(ParseBody(t))
         /\ WF_vars(ParseOutput(t))
         /\ WF_vars(ParseErrs(t))
         /\ WF_vars(ParseSkipLength(t))
         /\ WF_vars(ParseSkip(t))

\* ---- start lines given to the parser ----

\* number of characters of the status field of a status line
MaxCodeLen == 3

\* the characters of a status field: digits and a letter
CodeChars == {"0", "6", "7", "9", "x"}

RECURSIVE TextsUpTo(_, _)
\* the texts of at most n characters of chars
TextsUpTo(chars, n) ==
    IF n = 0 THEN {<<>>}
    ELSE TextsUpTo(chars, n - 1)
           \cup {Append(t, c) : t \in {x \in TextsUpTo(chars, n - 1) : Len(x) = n - 1}, c \in chars}

\* status lines "SIP/2.0 <code> OK" and "sip <code> Not Found" for every status
\* field, one whose number does not fit 16 bits, a request line, and lines
\* that are neither
StartLines ==
    {<<"S", "I", "P", "/", "2", ".", "0", Space>> \o code \o <<Space, "O", "K">> :
        code \in TextsUpTo(CodeChars, MaxCodeLen)}
      \cup {<<"s", "i", "p", Space>> \o code \o <<Space, "N", "o", "t", Space, "F">> :
        code \in TextsUpTo(CodeChars, MaxCodeLen)}
      \cup { <<"S", "I", "P", Space, "9", "9", "9", "9", "9", Space, "O", "K">>,
             <<"I", Space, "u", Space, "S", "I", "P">>,
             <<"I", Space, "x", Space, "S", "I", "P">>,
             <<"S", "I", "P", Space, "2", "0", "0">>,
             <<"x">> }

StartLineInit ==
    /\ TxIdle /\ NewConnectionPool /\ NewParser(FALSE)
    /\ call \in {[fn |-> "parse", startLine |-> l] : l \in StartLines}
    /\ ret = NoValue

\* the parse task reads the start line and what follows it
ParseStart ==
    /\ call.fn = "parse"
    /\ ret = NoValue
    /\ ret' = parseStart(call.startLine)
    /\ UNCHANGED <<call, txvars, poolvars, parservars>>

StartLineNext == ParseStart

StartLineSpec == StartLineInit /\ [][StartLineNext]_vars

\* ---- parameter sections given to parseParams ----

\* number of characters of a parameter section
MaxParamLen == 4

ParamChars == {";", "=", "a", Quote, Space, ","}

ParamsInit ==
    /\ TxIdle /\ NewConnectionPool /\ NewParser(FALSE)
    /\ call \in [fn : {"parseParams"}, source : TextsUpTo(ParamChars, MaxParamLen),
                 start : {";", Nul}, sep : {";"}, end : {",", Nul},
                 quoteValues : BOOLEAN, permitSingletons : BOOLEAN]
    /\ ret = NoValue

\* parseParams is called with the arguments drawn and returns
CallParseParams ==
    /\ call.fn = "parseParams"
    /\ ret = NoValue
    /\ ret' = [fn |-> "parseParams",
               result |-> parseParams(call.source, call.start, call.sep, call.end,
                                      call.quoteValues, call.permitSingletons)]
    /\ UNCHANGED <<call, txvars, poolvars, parservars>>

ParamsNext == CallParseParams

ParamsSpec == ParamsInit /\ [][ParamsNext]_vars

\* ---- vocabulary of the properties ----

\* a terminal signal: a final response passed up, a timeout error or a
\* transport error
IsTerminal(e) ==
    \/ e.ch = "msgs" /\ e.v >= 200
    \/ e.ch = "timeout"
    \/ e.ch = "transport"

TerminalCount == Cardinality({i \in 1..Len(out) : IsTerminal(out[i])})

IsSend(e) == e.ch = "request" \/ e.ch = "ack"

\* the step being taken handles input in, received in state from
Step(from, in) ==
    /\ state = from
    /\ Len(trace') > 0
    /\ trace'[1].from = from
    /\ trace'[1].input = in

\* what the step being taken adds to out
Added == SubSeq(out', Len(out) + 1, Len(out'))

Responses == {client_input_1xx, client_input_2xx, client_input_300_plus}

Finals == {client_input_2xx, client_input_300_plus}

\* C1: at most one terminal signal (final response passed up, timeout error,
\* transport error) is ever surfaced by a client transaction.
C1_AtMostOneTerminal == TerminalCount <= 1

\* C2: every created client transaction eventually delivers a terminal signal,
\* when the timers it started eventually fire.
C2_EventuallyTerminal == <>(TerminalCount >= 1)

\* C2 (amended): every created client transaction eventually delivers a
\* terminal signal, unless it is an INVITE transaction that is in proceeding
\* when timer B fires: there timer B is ignored.
C2_EventuallyTerminalOrProceeding ==
    <>(\/ TerminalCount >= 1
       \/ isInvite /\ state = client_state_proceeding /\ timer_b = "fired")

C2_Witness ==
    /\ timer_b = "fired"
    /\ TerminalCount >= 1
    /\ \E i \in 1..Len(out) : out[i].ch = "timeout"

\* the rows of the INVITE table: state, input, next state, action
C3_Table ==
    { <<client_state_calling, client_input_1xx, client_state_proceeding, "act_passup">>,
      <<client_state_calling, client_input_2xx, client_state_terminated, "act_passup_delete">>,
      <<client_state_calling, client_input_300_plus, client_state_completed, "act_invite_final">>,
      <<client_state_calling, client_input_timer_a, client_state_calling, "act_invite_resend">>,
      <<client_state_calling, client_input_timer_b, client_state_terminated, "act_timeout">>,
      <<client_state_calling, client_input_transport_err, client_state_terminated, "act_trans_err">>,
      <<client_state_proceeding, client_input_1xx, client_state_proceeding, "act_passup">>,
      <<client_state_proceeding, client_input_2xx, client_state_terminated, "act_passup_delete">>,
      <<client_state_proceeding, client_input_300_plus, client_state_completed, "act_invite_final">>,
      <<client_state_proceeding, client_input_timer_a, client_state_proceeding, NO_ACTION>>,
      <<client_state_proceeding, client_input_timer_b, client_state_proceeding, NO_ACTION>>,
      <<client_state_completed, client_input_300_plus, client_state_completed, "act_ack">>,
      <<client_state_completed, client_input_transport_err, client_state_terminated, "act_trans_err">>,
      <<client_state_completed, client_input_timer_d, client_state_terminated, "act_delete">>,
      <<client_state_completed, client_input_1xx, client_state_completed, NO_ACTION>>,
      <<client_state_completed, client_input_2xx, client_state_completed, NO_ACTION>>,
      <<client_state_completed, client_input_timer_a, client_state_completed, NO_ACTION>>,
      <<client_state_completed, client_input_timer_b, client_state_completed, NO_ACTION>> }

\* C3: the INVITE FSM starts in calling, and every transition it takes from
\* calling, proceeding or completed on an input of the table is the table's row
\* for that state and input; passup_delete is followed by the delete.
C3_InviteTable ==
    isInvite =>
      /\ (out = <<>> /\ nrecv = 0) => state = client_state_calling
      /\ \A i \in 1..Len(trace) :
           LET t == trace[i] IN
           /\ (\E row \in C3_Table : row[1] = t.from /\ row[2] = t.input)
                => <<t.from, t.input, t.to, t.action>> \in C3_Table
           /\ t.action = "act_passup_delete"
                => /\ i < Len(trace)
                   /\ trace[i + 1].input = client_input_delete
                   /\ trace[i + 1].action = "act_delete"

C3_Witness ==
    /\ isInvite
    /\ state = client_state_terminated
    /\ Len(trace) = 1
    /\ trace[1].from = client_state_completed
    /\ trace[1].input = client_input_timer_d

\* C4: non-INVITE FSM: a 2xx or 3xx+ in calling or proceeding moves to
\* completed, passes the response up once, sends no ACK and arms timer D;
\* timer A in proceeding keeps the state and retransmits the request once (a
\* failed send ends the transaction); timer B in proceeding moves to terminated
\* and surfaces a timeout.
C4_NonInvite ==
    [][~isInvite =>
        /\ \A s \in {client_state_calling, client_state_proceeding}, in \in Finals :
             Step(s, in) =>
               /\ state' = client_state_completed
               /\ Added = <<Out("msgs", lastResp')>>
               /\ timer_d' = "armed"
        /\ Step(client_state_proceeding, client_input_timer_a) =>
               /\ trace'[1].to = client_state_proceeding
               /\ trace'[1].action = "act_non_invite_resend"
               /\ CountIn(Added, "request") = 1
               /\ Added[1].ch = "request"
               /\ Added[1].v = 1 => state' = client_state_proceeding /\ Len(Added) = 1
        /\ Step(client_state_proceeding, client_input_timer_b) =>
               /\ state' = client_state_terminated
               /\ CountIn(Added, "timeout") = 1
      ]_vars

C4_Witness ==
    /\ ~isInvite
    /\ state = client_state_completed
    /\ timer_d = "armed"
    /\ Len(trace) = 1
    /\ trace[1].from = client_state_proceeding
    /\ trace[1].input = client_input_300_plus
    /\ Count("request") > 0

\* C5: whenever timer B fires while the transaction (INVITE or non-INVITE) is
\* in calling or proceeding, a timeout error is surfaced and the transaction
\* moves to terminated.
C5_TimerBTimeout ==
    [][\A s \in {client_state_calling, client_state_proceeding} :
         Step(s, client_input_timer_b) =>
           /\ state' = client_state_terminated
           /\ CountIn(Added, "timeout") = 1
      ]_vars

\* C5 (amended): whenever timer B fires while the transaction is in calling,
\* or is a non-INVITE transaction in proceeding, a timeout error is surfaced
\* and the transaction moves to terminated; an INVITE transaction in proceeding
\* ignores timer B.
C5_TimerBTimeoutAmended ==
    [][\A s \in {client_state_calling, client_state_proceeding} :
         Step(s, client_input_timer_b) =>
           IF isInvite /\ s = client_state_proceeding
           THEN state' = client_state_proceeding /\ out' = out
           ELSE /\ state' = client_state_terminated
                /\ CountIn(Added, "timeout") = 1
      ]_vars

C5_Witness ==
    /\ ~isInvite
    /\ state = client_state_terminated
    /\ Len(trace) > 0
    /\ trace[1].from = client_state_proceeding
    /\ trace[1].input = client_input_timer_b
    /\ Count("timeout") = 1

\* C6: terminated is absorbing: a response or a firing of timer A, B or D in
\* terminated leaves the state terminated and hands nothing out (no response
\* passed up, no error, no request, no ACK).
C6_TerminatedAbsorbs ==
    [][\A in \in Responses \cup {client_input_timer_a, client_input_timer_b, client_input_timer_d} :
         Step(client_state_terminated, in) =>
           /\ state' = client_state_terminated
           /\ out' = out
      ]_vars

C6_Witness ==
    /\ state = client_state_terminated
    /\ Len(trace) = 1
    /\ trace[1].from = client_state_terminated
    /\ trace[1].input = client_input_300_plus
    /\ isInvite

\* C7: after a failed send of the request or of an ACK the transaction is in
\* terminated, a transport error has been surfaced after the failed send, and
\* nothing is sent after it.
C7_TransportErr ==
    \A i \in 1..Len(out) :
      (IsSend(out[i]) /\ out[i].v = 0) =>
        /\ state = client_state_terminated
        /\ \E j \in (i + 1)..Len(out) : out[j].ch = "transport"
        /\ \A j \in (i + 1)..Len(out) : ~IsSend(out[j])

C7_Witness ==
    /\ state = client_state_terminated
    /\ \E i \in 1..Len(out) : out[i] = Out("request", 0)
    /\ Count("transport") = 1
    /\ timer_a = "fired"

\* C8: an INVITE transaction in calling or proceeding that receives a 3xx+
\* moves to completed, passes the response up, then sends an ACK, and arms
\* timer D with Timer_D (0 on a reliable transport); when the ACK was sent the
\* state stays completed; timer D firing in completed moves to terminated and
\* deletes the transaction.
C8_InviteFinal ==
    [][isInvite =>
        /\ \A s \in {client_state_calling, client_state_proceeding} :
             Step(s, client_input_300_plus) =>
               /\ trace'[1].to = client_state_completed
               /\ Len(Added) >= 2
               /\ Added[1] = Out("msgs", lastResp')
               /\ Added[2].ch = "ack"
               /\ timer_d' = "armed"
               /\ timer_d_time' = IF reliable THEN 0 ELSE Timer_D
               /\ Added[2].v = 1 => state' = client_state_completed /\ Len(Added) = 2
        /\ Step(client_state_completed, client_input_timer_d) =>
               /\ state' = client_state_terminated
               /\ Added = <<Out("delete", 0)>>
      ]_vars

C8_Witness ==
    /\ isInvite
    /\ state = client_state_terminated
    /\ timer_d = "fired"
    /\ out = <<Out("msgs", 486), Out("ack", 1), Out("delete", 0)>>

RECURSIVE Pow2(_)
Pow2(k) == IF k = 0 THEN 1 ELSE 2 * Pow2(k - 1)

Min(a, b) == IF a < b THEN a ELSE b

\* C9: on an unreliable transport the period of timer A after k
\* retransmissions is 2^k * T1 for INVITE and min(2^k * T1, T2) for non-INVITE;
\* each firing of timer A in a retransmitting state (calling for INVITE,
\* calling or proceeding for non-INVITE) restarts timer A and retransmits the
\* request exactly once.
C9_TimerAPeriod ==
    /\ [](~reliable =>
            timer_a_time = IF isInvite THEN Pow2(Count("request")) * T1
                           ELSE Min(Pow2(Count("request")) * T1, T2))
    /\ [][\A s \in {client_state_calling, client_state_proceeding} :
            (Step(s, client_input_timer_a) /\ (isInvite => s = client_state_calling)) =>
              /\ timer_a' = "armed"
              /\ CountIn(Added, "request") = 1
         ]_vars

C9_Witness ==
    /\ ~isInvite
    /\ ~reliable
    /\ Count("request") >= 4
    /\ timer_a_time = T2
    /\ timer_a = "armed"

\* C10: on a reliable transport timer A is never started and the request is
\* never retransmitted; on an unreliable one timer A is started; timer B is
\* started for both; timer D's duration is 0 on a reliable transport and
\* Timer_D on an unreliable one.
C10_ReliableNoResend ==
    /\ reliable => timer_a = "nil" /\ Count("request") = 0
    /\ ~reliable => timer_a # "nil"
    /\ timer_b # "nil"
    /\ timer_d_time = IF reliable THEN 0 ELSE Timer_D

C10_Witness ==
    /\ reliable
    /\ timer_a = "nil"
    /\ timer_b = "fired"
    /\ timer_d = "fired"
    /\ nrecv > 0

\* C11: Receive called with a message that is not a response returns an
\* UnexpectedMessage error and changes nothing: the FSM state, the last
\* response and the timers are as before, and nothing is passed up or sent.
C11_ReceiveRequest ==
    [][(nrecv' = nrecv + 1 /\ trace' = <<>>) =>
         /\ recvErr' = "UnexpectedMessageError"
         /\ state' = state
         /\ lastResp' = lastResp
         /\ <<timer_a, timer_a_time, timer_b, timer_d, timer_d_time>>'
              = <<timer_a, timer_a_time, timer_b, timer_d, timer_d_time>>
         /\ out' = out
      ]_vars

C11_Witness ==
    /\ recvErr = "UnexpectedMessageError"
    /\ state = client_state_proceeding
    /\ lastResp = 180
    /\ timer_b = "armed"

\* C12: once the cancel channel has fired no timer is outstanding (so no timer
\* input reaches the FSM any more) and the transaction has deleted itself.
C12_CancelStopsTimers ==
    cancelled ~>
      [](/\ timer_a # "armed" /\ timer_b # "armed" /\ timer_d # "armed"
         /\ Count("delete") >= 1)

\* ---- connection pool: vocabulary ----
Present(key) == store[key] # NoHandlerId

\* the handler stored under key has an expiry instant before now
Expired(key) == Present(key) /\ handlers[store[key]].expiryTime < 0

Running(h) == handlers[h].pc \in {"loop", "notify", "errs"}

\* the handlers spawned by a step
Spawned == {h \in HandlerIds : handlers[h].pc = "none" /\ handlers'[h].pc # "none"}

\* C13: in every pool state (key absent, or present with whatever connection),
\* right after Add(key, conn, ttl) has returned nil, Get(key) returns
\* (conn, true).
C13_GetAfterAdd ==
    [][\A key \in ConnKeys, conn \in Connections, ttl \in Ttls :
         (Add(key, conn, ttl) /\ AddErr = "nil")
           => Get(store', handlers', key) = <<conn, TRUE>>
      ]_vars

\* C14: Drop(key) returns true exactly when key was present; then the handler
\* that was stored is cancelled and Get(key) reports the key absent, and the
\* key stays absent until an Add of it; Drop of an absent key returns false
\* and leaves the pool as it was.
C14_Drop ==
    /\ [][\A key \in ConnKeys :
            CallDrop(key) =>
              IF Present(key)
              THEN /\ Drop(store, handlers, key).ret
                   /\ handlers'[store[key]].cancelled
                   /\ Get(store', handlers', key) = <<NoConnection, FALSE>>
              ELSE /\ ~Drop(store, handlers, key).ret
                   /\ UNCHANGED <<poolvars, parservars, fnvars>>
         ]_vars
    /\ [][\A key \in ConnKeys :
            (~Present(key) /\ Present(key)')
              => \E conn \in Connections, ttl \in Ttls : Add(key, conn, ttl)
         ]_vars

C14_Witness ==
    \E h \in HandlerIds :
      /\ handlers[h].pc = "notify"
      /\ handlers[h].cancelled
      /\ handlers[h].expiryTime = 1
      /\ ~Present(handlers[h].key)
      /\ ~poolCtxDone

\* C15: when the ttl of a key has run out and the key is neither added again
\* nor updated, then, pool.Serve running, the key is eventually removed.
C15_ExpiredRemoved ==
    \A key \in ConnKeys :
      (Expired(key) /\ ~poolCtxDone) ~> (~Expired(key) \/ poolCtxDone)

\* C16: pool.Serve removes a key only when the handler registered under that
\* key at that moment has an expiry instant that has passed; a notification
\* that is stale (the handler was updated after its timer ran out, or the key
\* was dropped and added again with a new handler) removes nothing.
C16_ServeRemovesExpired ==
    [][\A h \in HandlerIds :
         ServeExpired(h) =>
           \A key \in ConnKeys : (Present(key) /\ ~Present(key)') => Expired(key)
      ]_vars

C18_ReadErrorSurfaced ==
    \A h \in HandlerIds :
      (handlers[h].pc = "errs" /\ handlers[h].err = "broken")
        ~> (errs # <<>> /\ store[handlers[h].key] # h)

\* ---- message parser: vocabulary ----

\* the Writes whose message was sent on p.output, in the order of sending
RECURSIVE Outputs(_)
Outputs(seq) ==
    IF seq = <<>> THEN <<>>
    ELSE IF Head(seq).ch = "output" THEN <<Head(seq).w>> \o Outputs(Tail(seq))
         ELSE Outputs(Tail(seq))

\* C19: whatever is written, whatever errors are published and whenever Reset
\* is called, the messages sent on the output channel are in the order of the
\* input: no message is sent before one that precedes it in the input, and
\* none is sent twice.
C19_OutputInOrder ==
    \A i, j \in 1..Len(Outputs(published)) :
      i < j => Outputs(published)[i] < Outputs(published)[j]

\* C20: not streamed, every Write that returned success leads to exactly one
\* output (a message or an error): there are never more outputs than Writes,
\* and the k-th Write is eventually followed by a k-th output unless the
\* parser is stopped; so ParseMessage, which makes one Write and waits for one
\* output, returns.
C20_OneOutputPerWrite ==
    /\ [](~streamed => Len(published) <= nwritten)
    /\ \A k \in 1..MaxWrites :
         (~streamed /\ nwritten >= k) ~> (Len(published) >= k \/ stopPc # "none")

\* ---- message parser: the parse tasks ----

\* a parse task that was started and has not exited
Parsing(t) == tasks[t].pc \notin {"none", "done", "panic"}

\* C29: at every moment at most one parse task runs on the parser, whatever
\* writes, published errors and Reset calls came before
C29_OneParseTask == Cardinality({t \in TaskIds : Parsing(t)}) <= 1

\* C23: in stream mode, from the publication of a terminal error until the
\* Reset that answers it, no Write is accepted: none is counted as a success
\* and none adds a byte to the input buffer
C23_StickyError ==
    [][(/\ streamed
        /\ nreset < ErrsPublished
        /\ terminalErr \in {"MalformedMessage", "BrokenMessage"})
       => (nwritten' = nwritten /\ Len(input') <= Len(input))]_vars

\* ---- connection pool: the expiry instant ----

\* C30: an Add on a key that is present (an update of its handler) never
\* leaves the handler's expiry instant earlier than it was
C30_ExpiryMonotone ==
    [][\A key \in ConnKeys, conn \in Connections, ttl \in Ttls :
         (Add(key, conn, ttl) /\ AddErr = "nil" /\ Present(key))
         => handlers'[store[key]].expiryTime >= handlers[store[key]].expiryTime]_vars

\* ---- message parser: Stop ----

\* C24: once Stop has been called, every Write returns a ParserWrite error
\* and changes nothing: it is not counted as accepted, no byte is appended
\* to the input buffer and no body-length entry is queued
C24_WriteAfterStop ==
    [][\A data \in Datagrams :
         (Write(data) /\ stopPc # "none")
         => /\ writeErr' = "ParserWriteError"
            /\ UNCHANGED <<nwritten, input, bodyLengths>>]_vars

\* a Write was refused after Stop, with bytes accepted before it
C24_Witness ==
    /\ stopPc # "none"
    /\ writeErr = "ParserWriteError"
    /\ nwritten >= 1

\* C25: Stop always completes: whatever the parse task is doing when Stop is
\* called (waiting for input, in the middle of a message, holding a message
\* or an error that nobody receives any more), the task exits and Stop returns
C25_StopReturns == (stopPc = "waiting") ~> (stopPc = "returned" \/ Panicked)

\* ---- message parser: stream mode ----

\* C22: in stream mode a message whose header section has no Content-Length
\* header, or more than one, is never sent on the output channel: when the
\* header section has been read the task turns to a MalformedMessage error, only
\* messages with exactly one Content-Length are sent, and the error is sent
\* and the next start line awaited without a byte taken for a body
C22_ContentLengthRequired ==
    /\ [][\A t \in TaskIds :
            (/\ streamed
             /\ ParseHeaders(t)
             /\ tasks'[t].pc \notin {"headers", "panic"}
             /\ tasks'[t].cl # 1)
            => (tasks'[t].pc = "errs" /\ tasks'[t].err = "MalformedMessage")]_vars
    /\ [][\A t \in TaskIds : (streamed /\ ParseOutput(t)) => tasks[t].cl = 1]_vars
    /\ [][\A t \in TaskIds :
            (streamed /\ ParseErrs(t) /\ tasks[t].err = "MalformedMessage")
            => /\ input' = input
               /\ tasks'[t].pc = "start"
               /\ published'[Len(published')] = Pub("errs", tasks[t].w, "MalformedMessage")]_vars

\* a message without Content-Length was answered by an error, and a message
\* with two Content-Length headers is about to be; nothing was sent on output
C22_Witness ==
    /\ streamed
    /\ Len(published) >= 1
    /\ \A i \in 1..Len(published) : published[i] = Pub("errs", i, "MalformedMessage")
    /\ \E t \in TaskIds :
         tasks[t].pc = "errs" /\ tasks[t].err = "MalformedMessage" /\ tasks[t].cl = 2

\* ---- message parser: datagram mode ----

\* C21: not streamed, a Write whose start line is rejected is answered by
\* exactly one InvalidStartLine error; the body-length entry then taken is the
\* entry of that Write; exactly the rest of that Write is discarded, so that
\* what is parsed next starts at the first byte of a later Write
C21_BadStartLineSkipped ==
    /\ [](~streamed =>
            \A i, j \in 1..Len(published) :
              (/\ i < j
               /\ published[i].err = "InvalidStartLine"
               /\ published[j].err = "InvalidStartLine")
              => published[i].w # published[j].w)
    /\ [][\A t \in TaskIds :
            (~streamed /\ ParseSkipLength(t))
            => nwritten - Len(bodyLengths) + 1 = tasks[t].w]_vars
    /\ [][\A t \in TaskIds :
            (~streamed /\ ParseSkip(t))
            => /\ tasks'[t].pc = "start"
               /\ \A i \in 1..Len(input) :
                    (i <= Len(input) - Len(input')) <=> (input[i][2] <= tasks[t].w)]_vars

\* ---- message parser: headers ----

\* C26: no header line makes the parse task panic: a header that cannot be
\* parsed, such as an address header whose list has a section made only of
\* whitespace, is skipped and the task goes on
C26_NoPanicOnHeader ==
    [][\A t \in TaskIds : ParseHeaders(t) => tasks'[t].pc # "panic"]_vars

\* ---- connection pool: concurrent Add calls ----

\* the handler tasks that serve key and were not told to stop
Serving(key) ==
    {h \in HandlerIds : Running(h) /\ ~CtxDone(h) /\ handlers[h].key = key}

\* C27: whatever the interleaving of concurrent Add calls with Drop and
\* Serve, at most one handler task that was not cancelled exists per key
C27_OneHandlerPerKey == \A key \in ConnKeys : Cardinality(Serving(key)) <= 1

\* ---- connection pool: the store and the handler tasks ----

\* C28: in every reachable state a key is in the store exactly when its
\* handler task runs and was not cancelled: a key of the store maps to a
\* handler whose task has not exited and was not cancelled, and a handler task
\* that runs and was not told to stop is the one stored under its key
C28_StoreMatchesTasks ==
    /\ \A key \in ConnKeys :
         Present(key) => (Running(store[key]) /\ ~handlers[store[key]].cancelled)
    /\ \A h \in HandlerIds :
         (Running(h) /\ ~CtxDone(h)) => store[handlers[h].key] = h

\* ---- client transaction: retransmission and deletion ----

\* C36: in an INVITE transaction a step taken once the state has left calling
\* (a response of any class has been received) never sends the original
\* request again, whatever timer fires.
C36_NoResendAfterResponse ==
    [][(isInvite /\ state # client_state_calling) =>
         CountIn(Added, "request") = 0]_vars

C36_Witness ==
    /\ isInvite
    /\ ~reliable
    /\ state = client_state_proceeding
    /\ timer_a = "fired"
    /\ Len(trace) = 1
    /\ trace[1].from = client_state_proceeding
    /\ trace[1].input = client_input_timer_a
    /\ Count("request") = 1

\* C37: the delete action has run exactly once whenever the transaction is in
\* terminated, on whatever path it got there, and it never runs a second time.
C37_DeleteOnce ==
    /\ Count("delete") <= 1
    /\ state = client_state_terminated => Count("delete") = 1

C37_Witness ==
    /\ isInvite
    /\ state = client_state_terminated
    /\ Count("delete") = 1
    /\ Count("transport") = 1
    /\ timer_d = "fired"
    /\ nrecv = MaxReceive

\* C34: the ACK sent for a 3xx+ response to an INVITE has method ACK and an
\* empty body, the From, Call-ID and Route headers of the original request,
\* the original's CSeq number with method ACK, the original's first Via and
\* the To header of the response; building it leaves the original unchanged
\* (its CSeq still names the original method), and a retransmission sends the
\* original as it was.
C34_AckContents ==
    /\ [][CountIn(Added, "ack") > 0 =>
            /\ sent'.method = "ACK"
            /\ sent'.body = ""
            /\ \A n \in {"From", "Call-ID", "Route"} :
                 GetHeaders(sent'.headers, n) = GetHeaders(origin.headers, n)
            /\ GetHeaders(sent'.headers, "CSeq")
                 = <<CSeqHdr(GetHeaders(origin.headers, "CSeq")[1].val, "ACK")>>
            /\ GetHeaders(sent'.headers, "Via") = <<GetHeaders(origin.headers, "Via")[1]>>
            /\ GetHeaders(sent'.headers, "To") = <<Hdr("To", lastResp')>>
            /\ Len(sent'.headers) = 5 + Len(GetHeaders(origin.headers, "Route"))
            /\ origin' = origin
            /\ GetHeaders(origin'.headers, "CSeq")[1].method = origin.method
         ]_vars
    /\ [][CountIn(Added, "request") > 0 => sent' = origin /\ origin' = origin]_vars

C34_Witness ==
    /\ isInvite
    /\ state = client_state_completed
    /\ Count("ack") = 2
    /\ Count("request") = 2
    /\ sent.method = "ACK"
    /\ Len(GetHeaders(sent.headers, "Route")) = 2
    /\ GetHeaders(origin.headers, "CSeq")[1].method = "INVITE"

\* C35: with Receive called from two goroutines, the FSM step of each call
\* acts on the response of that call: what it passes up is that response,
\* passed up at most once, and the To header of an ACK it sends is the To
\* header of that response.
C35_StepUsesOwnResponse ==
    [][\A c \in Receivers :
         ReceiveSpin(c) =>
           /\ \A i \in 1..Len(Added) :
                Added[i].ch = "msgs" => Added[i].v = receiving[c]
           /\ CountIn(Added, "msgs") <= 1
           /\ CountIn(Added, "ack") > 0 =>
                GetHeaders(sent'.headers, "To") = <<Hdr("To", receiving[c])>>
      ]_vars

\* ---- connection handler: the ways it ends ----

\* the handler has left its loop (it returned from the for of Serve)
Ended(h) == handlers[h].pc \in {"done", "stopping"}

\* C31: the connection of a handler is closed exactly once by the handler's
\* disposal: not while the handler serves, never twice, and it is closed once
\* the handler has left its loop, whichever way it left it.
C31_ClosedOnce ==
    \A h \in HandlerIds :
      /\ handlers[h].closed <= 1
      /\ handlers[h].pc \in {"loop", "notify", "errs"} => handlers[h].closed = 0
      /\ Ended(h) => handlers[h].closed = 1

\* C32: a handler whose parser reported an error resets the parser, passes the
\* error up and gets back to its loop, without being cancelled.
C32_ServesAfterParserError ==
    \A h \in HandlerIds :
      (handlers[h].pc = "errs" /\ handlers[h].err = "syntax")
        ~> (handlers[h].pc = "loop" \/ CtxDone(h))

\* C33: a Read that fails with a timeout or temporary error leaves the handler
\* in its loop with nothing handed to the parser; a Read that fails with
\* another error is never followed by another Read, and the handler is then
\* disposed.
C33_ReadErrors ==
    /\ [][\A h \in HandlerIds :
            HandlerRead(h) =>
              \/ handlers' = handlers
              \/ handlers'[h].pc = "errs" /\ handlers'[h].err \in {"broken", "syntax"}
         ]_vars
    /\ [][\A h \in HandlerIds :
            (handlers[h].pc = "errs" /\ handlers[h].err = "broken")
              => handlers'[h].pc \in {"errs", "done", "stopping"}
         ]_vars
    /\ \A h \in HandlerIds :
         (handlers[h].pc = "errs" /\ handlers[h].err = "broken")
           ~> (handlers[h].pc = "done" /\ handlers[h].closed = 1)

\* C38: once the pool's context is cancelled pool.Serve eventually returns,
\* and when it has returned the store is empty, every handler task has exited
\* and every connection given to a handler has been closed.
C38_ServeReturns ==
    /\ poolCtxDone ~> (servePc = "returned")
    /\ [](servePc = "returned" =>
            /\ \A key \in ConnKeys : store[key] = NoHandlerId
            /\ \A h \in HandlerIds :
                 handlers[h].pc = "none" \/ (handlers[h].pc = "done" /\ handlers[h].closed = 1))

\* ---- start lines ----

\* C39: a response the parser publishes has a status code from 0 to 699; a
\* status line whose status field is a larger number, or no number, gets an
\* InvalidStartLineError and no message.
C39_StatusCodeRange ==
    (ret # NoValue /\ call.fn = "parse") =>
      /\ (ret.ch = "output" /\ ret.msg = "response") => ret.statusCode \in 0..699
      /\ (isResponse(call.startLine) /\ ~isRequest(call.startLine)
            /\ ParseUint(Split(call.startLine, Space)[2], 16).err # "nil")
           => (ret.ch = "errs" /\ ret.msg = "InvalidStartLineError")

\* ---- parameters ----

\* C40: whatever the text and the setting of start, sep, end, quoting and
\* singletons, parseParams returns an error or params none of whose keys is
\* the empty string.
C40_NoEmptyKey ==
    (ret # NoValue /\ call.fn = "parseParams") =>
      \/ ret.result.err # "nil"
      \/ \A i \in 1..Len(ret.result.params) : ret.result.params[i].key # <<>>

====
